---- MODULE Spec2Model ----
(***************************************************************************)
(* Model of the benchmark engine of @gud/bench (src/src/Benchmark.ts):     *)
(* the test list, the results array and the TestResult objects it refers   *)
(* to, and the async method run() cut at its suspension points.            *)
(*                                                                         *)
(* Times are whole numbers of an abstract clock tick.  Quotients are kept  *)
(* exact as reduced fractions <<numerator, denominator>>; a denominator of *)
(* 0 stands for the IEEE result of dividing by zero (<<1, 0>> = Infinity,  *)
(* <<0, 0>> = NaN).  An optional field that is absent holds <<>>.          *)
(***************************************************************************)
EXTENDS Integers, Sequences, FiniteSets, TLC

(***************************************************************************)
(* Bounds of the model.                                                    *)
(***************************************************************************)
MaxTests == 2
MaxCalls == 2
MaxCycles == 2
MaxInterval == 3

\* The calls of test() the model makes.  A test function is modelled by
\* the elapsed time, in clock ticks, that each of its calls takes:
\* performance.now() before and after the call differ by the function's
\* cost.  test(fn) registers a slow function without a name, and
\* test("fast", fn) a function too fast for the clock to see under a name.
TestInputs ==
    {[named |-> FALSE, name |-> "", cost |-> 1],
     [named |-> TRUE, name |-> "fast", cost |-> 0]}

(***************************************************************************)
(* JavaScript values: what a validate callback can return and what the     *)
(* value option can hold.  An object is a reference into the object store. *)
(***************************************************************************)
JTrue == [type |-> "boolean", val |-> "true"]
JFalse == [type |-> "boolean", val |-> "false"]
JString(s) == [type |-> "string", val |-> s]
JNumber(s) == [type |-> "number", val |-> s]
JUndefined == [type |-> "undefined", val |-> ""]
JNull == [type |-> "null", val |-> ""]
JObject(r) == [type |-> "object", ref |-> r]

\* ToBoolean of the language: false, "", 0, null and undefined are falsy,
\* every object is truthy.
Truthy(v) ==
    CASE v.type = "boolean" -> v.val = "true"
      [] v.type = "string" -> v.val # ""
      [] v.type = "number" -> v.val # "0"
      [] v.type = "object" -> TRUE
      [] OTHER -> FALSE

\* typeof v
typeOf(v) == IF v.type = "null" THEN "object" ELSE v.type

\* a || b
JOr(a, b) == IF Truthy(a) THEN a ELSE b

(***************************************************************************)
(* Exact arithmetic helpers.                                               *)
(***************************************************************************)
RECURSIVE Gcd(_, _)
Gcd(a, b) == IF b = 0 THEN a ELSE Gcd(b, a % b)

\* n / d of two non-negative numbers, as the division of doubles gives it.
Div(n, d) ==
    IF d = 0 THEN (IF n = 0 THEN <<0, 0>> ELSE <<1, 0>>)
    ELSE LET g == Gcd(n, d) IN <<n \div g, d \div g>>

RemoveAt(s, i) == SubSeq(s, 1, i - 1) \o SubSeq(s, i + 1, Len(s))

(***************************************************************************)
(* Options objects.  An options object is a record that has only the       *)
(* fields the caller wrote; a missing field reads as undefined and takes   *)
(* the default of the destructuring in run().                              *)
(***************************************************************************)
Has(o, f) == f \in DOMAIN o
Opt(o, f, default) == IF Has(o, f) THEN o[f] ELSE default

\* A validate callback is modelled by the set of values it can return.
ValidateAny == {JTrue, JFalse, JString("boom"), JNumber("1"), JUndefined}
ValidateNeverTrue == ValidateAny \ {JTrue}

Merge(a, b) == [f \in DOMAIN a \cup DOMAIN b |-> IF f \in DOMAIN b THEN b[f] ELSE a[f]]

NoOptions == [f \in {} |-> 0]

CycleOptions == {[cycles |-> k] : k \in 1..MaxCycles}
VerbosityOptions == {NoOptions, [verbosity |-> 0], [verbosity |-> 2]}
ValidateOptions == {[validate |-> r] : r \in {ValidateAny, ValidateNeverTrue}}
PausedGcOptions == {[coolDown |-> 1, gcInterval |-> 1]}

\* The options objects passed to run(): none; every verbosity (1 is the
\* default); and silent runs with validation, alone or with a cool-down and
\* a collection forced after every call.
RunOptions ==
    {NoOptions}
    \cup {Merge(c, v) : c \in CycleOptions, v \in VerbosityOptions}
    \cup {Merge(Merge(c, [verbosity |-> 0]), a) : c \in CycleOptions, a \in ValidateOptions}
    \cup {Merge(Merge(Merge(c, [verbosity |-> 0]), g), [validate |-> ValidateAny]) :
             c \in CycleOptions, g \in PausedGcOptions}

\* The options objects passed to run() on a suite that has run before.
RerunOptions == {NoOptions} \cup {Merge(c, [verbosity |-> 0]) : c \in CycleOptions}

\* The options objects passed to preheat().
PreheatOptions == {NoOptions, [verbosity |-> 2, gcStrategy |-> "per-test"]}

\* The garbage collection options: each strategy by name, the default
\* (periodic, every 1000 calls), periodic with a small interval, and never
\* with an interval.
GcOptions ==
    {[gcStrategy |-> s] : s \in {"never", "per-cycle", "per-test"}}
    \cup {NoOptions, [gcStrategy |-> "never", gcInterval |-> 1]}
    \cup {[gcInterval |-> k] : k \in 1..MaxInterval}

\* run() under every garbage collection option, reporting or silent, and
\* silent runs with a cool-down and a validation that can fail.
GcRunOptions ==
    {Merge(Merge(c, g), v) : c \in CycleOptions, g \in GcOptions,
                             v \in {NoOptions, [verbosity |-> 0]}}
    \cup {Merge(Merge(c, g), [verbosity |-> 0, coolDown |-> 1, validate |-> ValidateAny]) :
             c \in CycleOptions,
             g \in {[gcStrategy |-> "per-test"], [gcStrategy |-> "per-cycle"],
                    [gcInterval |-> 1]}}

\* run() after a preheat.
GcRerunOptions == {NoOptions, [verbosity |-> 0, gcStrategy |-> "never"]}

\* preheat(): without options, with its own options, and with an object
\* that also carries options of run() that preheat() does not read.
GcPreheatOptions ==
    {NoOptions,
     [gcInterval |-> 2],
     [verbosity |-> 2, gcStrategy |-> "per-cycle"],
     [verbosity |-> 2, gcStrategy |-> "per-test", gcInterval |-> 1, cycles |-> 2,
      coolDown |-> 1, validate |-> ValidateNeverTrue, value |-> JNumber("1")]}

(***************************************************************************)
(* State.                                                                  *)
(***************************************************************************)
VARIABLES
    tests,          \* #tests: sequence of [name, fn]; fn is [id, cost]
    results,        \* this.results: sequence of references to TestResult objects
    heap,           \* the TestResult objects, by reference
    gc,             \* whether the host provides globalThis.gc
    pc,             \* position of run(): "idle", "cycle", "pick", "call", "cool", "done"
    iterations,     \* run(): the iterations argument
    options,        \* run(): the options argument
    hasGC,          \* run(): const hasGC
    iterationCount, \* run(): let iterationCount
    cycle,          \* run(): the loop variable of the cycle loop
    queue,          \* run(): const queue of the current cycle: [result, runs, fn]
    i,              \* run(): the queue index picked by #prepareIteration
    promise,        \* the promise run() returned: "none", "pending", "resolved", "rejected"
    error,          \* what the catch clause of run() caught: "none", "throw", "validation"
    started,        \* observed: calls of each test (by position) begun in this invocation
    returned,       \* observed: calls of each test that returned in this invocation
    cycleCalls,     \* observed: calls of each test that returned in the current cycle
    gcCount,        \* observed: invocations of globalThis.gc in this invocation
    coolCount,      \* observed: cool-down pauses begun in this invocation
    validateCount,  \* observed: calls of the validate callback in this invocation
    lastValidate,   \* observed: what the validate callback returned last, or NotCalled
    invoked,        \* observed: the method the caller invoked last: "none", "run", "preheat"
    stale,          \* observed: results held samples of an earlier invocation when this one began
    warnings,       \* observed: missing-hook warnings logged in this invocation
    requested,      \* observed: the arguments the caller passed to the method invoked last
    store,          \* the objects reachable from the value option and its copies, by reference
    arg,            \* the argument of the test call under way, or NotCalled
    configured,     \* observed: the objects of the value option as the caller passed them
    asked,          \* statistics module: the degrees of freedom looked up
    tValue,         \* statistics module: the critical value returned, 0 before the lookup
    procs,          \* command line: the node processes of one invocation, parent first
    cmd,            \* command line: the run command's handler in the process that runs it
    groups,         \* ghost: the calls of Logger.group and of groupEnd made by the run
    earlier         \* a run that was under way when run() was called again

vars == <<tests, results, heap, gc, pc, iterations, options, hasGC, iterationCount,
          cycle, queue, i, promise, error, started, returned, cycleCalls, gcCount,
          coolCount, validateCount, lastValidate, invoked, stale, warnings, requested,
          store, arg, configured, asked, tValue, procs, cmd, groups, earlier>>

\* The objects of the value option, and the state outside the suite.
valueVars == <<store, arg, configured>>
aside == <<asked, tValue, procs, cmd, earlier>>

locals == <<iterations, options, hasGC, iterationCount, cycle, queue, i>>
observed == <<started, returned, cycleCalls, gcCount, coolCount, validateCount, lastValidate>>

NotCalled == [type |-> "none", val |-> ""]

\* The options run() destructures, with their defaults.
coolDown == Opt(options, "coolDown", 0)
cycles == Opt(options, "cycles", 1)
\* Variant: the collection interval defaults to a hundred calls.
gcIntervalOfHundred == Opt(options, "gcInterval", 100)

gcInterval == Opt(options, "gcInterval", 1000)
gcStrategy == Opt(options, "gcStrategy", "periodic")
verbosity == Opt(options, "verbosity", 1)

Absent == <<>>

\* The handler of the run command before it is called: proc is the process
\* that calls it, k the index of the file the load loop is at, loaded the
\* calls of loadModule, registered the tests passed to bench.test in order,
\* calls the test calls asked of preheat and run, held the method that
\* filled bench.results last, exported the results exportToJson wrote,
\* error the message it rejects with.
NoCommand ==
    [proc |-> 0, pc |-> "none", k |-> 0, loaded |-> 0, registered |-> <<>>, calls |-> 0,
     held |-> "none", exported |-> "none", error |-> ""]

\* No console group opened or closed yet.
NoGroups == [opened |-> 0, closed |-> 0]

\* No run was under way when run() was called: the locals of such a run,
\* its place pc, and own, the result objects its queue refers to that
\* this.results refers to no longer.
NoRun ==
    [pc |-> "none", iterations |-> 0, options |-> NoOptions, hasGC |-> FALSE,
     iterationCount |-> 0, cycle |-> 0, queue |-> <<>>, i |-> 0, own |-> <<>>,
     error |-> "none"]

\* The object literal of the results reset.
EmptyResult(name) ==
    [name |-> name, samples |-> <<>>, totalTime |-> 0, meanTime |-> Absent,
     opsPerSecond |-> Absent, stdDeviation |-> Absent, marginOfError |-> Absent]

Zeros == [t \in 1..Len(tests) |-> 0]

\* A new Benchmark: no test, no result, no run yet.
Constructed ==
    /\ tests = <<>>
    /\ results = <<>>
    /\ heap = <<>>
    /\ pc = "idle"
    /\ iterations = 0
    /\ options = NoOptions
    /\ hasGC = FALSE
    /\ iterationCount = 0
    /\ cycle = 0
    /\ queue = <<>>
    /\ i = 0
    /\ promise = "none"
    /\ error = "none"
    /\ started = <<>>
    /\ returned = <<>>
    /\ cycleCalls = <<>>
    /\ gcCount = 0
    /\ coolCount = 0
    /\ validateCount = 0
    /\ lastValidate = NotCalled
    /\ invoked = "none"
    /\ stale = FALSE
    /\ warnings = 0
    /\ requested = [n |-> 0, o |-> NoOptions]
    /\ arg = NotCalled
    /\ configured = <<>>
    /\ groups = NoGroups
    /\ earlier = NoRun

\* No lookup in the statistics module, no command line invocation.
Elsewhere ==
    /\ asked = 0
    /\ tValue = 0
    /\ procs = <<>>
    /\ cmd = NoCommand

\* A host started with --expose-gc: globalThis.gc is there.
Init == gc = TRUE /\ Constructed /\ store = <<>> /\ Elsewhere

\* Any host: globalThis.gc is there or it is not.
InitGC == gc \in BOOLEAN /\ Constructed /\ store = <<>> /\ Elsewhere

(***************************************************************************)
(* test(name, fn) and test(fn): append a test.  named is FALSE for the     *)
(* overload without a name.  The suite is set up before its first run.     *)
(***************************************************************************)
AutoName(n) == "Test " \o ToString(n)

\* Variant: the automatic name counts the tests registered before the call.
RegisteredNameCountsBefore(named, name) == IF named THEN name ELSE AutoName(Len(tests))

\* if (typeof name === 'function') name = `Test ${this.tests.length + 1}`
RegisteredName(named, name) == IF named THEN name ELSE AutoName(Len(tests) + 1)

Test(named, name, cost) ==
    /\ pc = "idle"
    /\ Len(tests) < MaxTests
    /\ tests' = Append(tests, [name |-> RegisteredName(named, name),
                               fn |-> [id |-> Len(tests) + 1, cost |-> cost]])
    /\ pc' = "idle"
    /\ UNCHANGED <<results, heap, gc, locals, promise, error, observed, invoked, stale, warnings, requested, groups, valueVars, aside>>

(***************************************************************************)
(* Statistics.                                                             *)
(***************************************************************************)
\* Two-sided 95% critical value of Student's t, in thousandths.
TTable == <<12706, 4303, 3182, 2776, 2571, 2447, 2365, 2306, 2262, 2228>>

\* Variant: the interpolation between 10 and 30 degrees of freedom rises.
getTCritical95Rising(df) ==
    IF df <= 10 THEN TTable[df]
    ELSE IF df <= 30 THEN 2042 + ((df - 10) * 186) \div 20
    ELSE 1960 + 300 \div df

\* The table up to 10 degrees of freedom, a straight line from there down to
\* 2.042 at 30, and a closed form that falls to 1.960 beyond.
getTCritical95(df) ==
    IF df <= 10 THEN TTable[df]
    ELSE IF df <= 30 THEN 2042 + ((30 - df) * 186) \div 20
    ELSE 1960 + 300 \div df

\* Math.sqrt of a fraction, kept exact: the tagged radicand.
Sqrt(q) == <<"sqrt", q[1], q[2]>>

\* Sum of (time - meanTime)^2 over the samples whose time is in times, as a
\* multiple of 1/den^2, for meanTime = num/den: the samples of one time
\* are added up together.
RECURSIVE SquaredDiffsOf(_, _, _, _)
SquaredDiffsOf(times, samples, num, den) ==
    IF times = {} THEN 0
    ELSE LET time == CHOOSE t \in times : TRUE
             diff == IF den * time >= num THEN den * time - num ELSE num - den * time
             count == Cardinality({j \in DOMAIN samples : samples[j] = time})
         IN count * diff * diff + SquaredDiffsOf(times \ {time}, samples, num, den)

\* Sum of (time - meanTime)^2 over the samples, as a multiple of 1/den^2,
\* for meanTime = num/den.
SquaredDiffs(samples, num, den) ==
    SquaredDiffsOf({samples[j] : j \in DOMAIN samples}, samples, num, den)

\* Variant: a single sample has a dispersion of zero.
WithStatisticsZeroForOneSample(r) ==
    LET sampleSize == Len(r.samples)
        meanTime == Div(r.totalTime, sampleSize)
        r1 == [r EXCEPT !.meanTime = meanTime,
                        !.opsPerSecond = Div(1000 * meanTime[2], meanTime[1])]
        degreesOfFreedom == sampleSize - 1
        variance == Div(SquaredDiffs(r.samples, meanTime[1], meanTime[2]),
                        meanTime[2] * meanTime[2] * degreesOfFreedom)
    IN IF sampleSize <= 1
       THEN [r1 EXCEPT !.stdDeviation = Sqrt(<<0, 1>>),
                       !.marginOfError = <<0>> \o Sqrt(<<0, 1>>)]
       ELSE [r1 EXCEPT !.stdDeviation = Sqrt(variance),
                       !.marginOfError =
                           <<getTCritical95(degreesOfFreedom)>>
                           \o Sqrt(Div(variance[1], variance[2] * sampleSize))]

\* Variant: the variance of the population, divided by the sample size.
WithStatisticsOfPopulation(r) ==
    LET sampleSize == Len(r.samples)
        meanTime == Div(r.totalTime, sampleSize)
        r1 == [r EXCEPT !.meanTime = meanTime,
                        !.opsPerSecond = Div(1000 * meanTime[2], meanTime[1])]
        degreesOfFreedom == sampleSize - 1
        variance == Div(SquaredDiffs(r.samples, meanTime[1], meanTime[2]),
                        meanTime[2] * meanTime[2] * sampleSize)
    IN IF sampleSize <= 1 THEN r1
       ELSE [r1 EXCEPT !.stdDeviation = Sqrt(variance),
                       !.marginOfError =
                           <<getTCritical95(degreesOfFreedom)>>
                           \o Sqrt(Div(variance[1], variance[2] * sampleSize))]

\* The body of the loop of #calculateStatistics for a result with samples:
\* stdDeviation is the square root of the variance, marginOfError the
\* critical value times the square root of variance / sampleSize.
WithStatistics(r) ==
    LET sampleSize == Len(r.samples)
        meanTime == Div(r.totalTime, sampleSize)
        r1 == [r EXCEPT !.meanTime = meanTime,
                        !.opsPerSecond = Div(1000 * meanTime[2], meanTime[1])]
        degreesOfFreedom == sampleSize - 1
        variance == Div(SquaredDiffs(r.samples, meanTime[1], meanTime[2]),
                        meanTime[2] * meanTime[2] * degreesOfFreedom)
    IN IF sampleSize <= 1 THEN r1
       ELSE [r1 EXCEPT !.stdDeviation = Sqrt(variance),
                       !.marginOfError =
                           <<getTCritical95(degreesOfFreedom)>>
                           \o Sqrt(Div(variance[1], variance[2] * sampleSize))]

\* The index, from k on, of the first result without samples, at which
\* #calculateStatistics returns; past the end when every result has samples.
FirstWithoutSamples(h, rs, k) ==
    LET empty == {j \in k..Len(rs) : Len(h[rs[j]].samples) = 0}
    IN IF empty = {} THEN Len(rs) + 1
       ELSE CHOOSE j \in empty : \A m \in empty : j <= m

\* #calculateStatistics: walks this.results in order, from index k, and
\* returns from the whole method at the first result without samples.  The
\* results are distinct objects, so the walk is the heap with the
\* statistics set in the results before that one.
calculateStatistics(h, rs, k) ==
    [ref \in DOMAIN h |->
        IF \E j \in k..(FirstWithoutSamples(h, rs, k) - 1) : rs[j] = ref
        THEN WithStatistics(h[ref])
        ELSE h[ref]]

(***************************************************************************)
(* printResults: Array.prototype.sort orders this.results in place, by     *)
(* ascending totalTime; the sort is stable.                                *)
(***************************************************************************)
RECURSIVE InsertSorted(_, _, _)
InsertSorted(sorted, ref, h) ==
    IF sorted = <<>> THEN <<ref>>
    ELSE IF h[ref].totalTime - h[sorted[Len(sorted)]].totalTime >= 0
         THEN Append(sorted, ref)
         ELSE Append(InsertSorted(SubSeq(sorted, 1, Len(sorted) - 1), ref, h),
                     sorted[Len(sorted)])

RECURSIVE SortByTotalTime(_, _)
SortByTotalTime(rs, h) ==
    IF rs = <<>> THEN <<>>
    ELSE InsertSorted(SortByTotalTime(SubSeq(rs, 1, Len(rs) - 1), h), rs[Len(rs)], h)

printResults(rs, h) == SortByTotalTime(rs, h)

(***************************************************************************)
(* run(iterations, options), cut at its awaits.                            *)
(***************************************************************************)
\* Variant: a result that exists already is kept.
ResetResultsKeepsOld(ts) ==
    [k \in 1..Len(ts) |-> IF k \in DOMAIN results THEN heap[results[k]]
                          ELSE EmptyResult(ts[k].name)]

\* this.results = this.tests.map(...): one new object per registered test.
ResetResults(ts) == [k \in 1..Len(ts) |-> EmptyResult(ts[k].name)]

\* Variant: the queue is made from the tests; a test without a result of
\* its own is given the last one.
PrepareQueueFromTests(rs, ts) ==
    [k \in 1..Len(ts) |->
        [result |-> rs[IF k <= Len(rs) THEN k ELSE Len(rs)], runs |-> 0, fn |-> ts[k].fn]]

\* const queue = this.results.map((result, i) => ({result, runs: 0, fn: this.tests[i].fn}))
PrepareQueue(rs, ts) ==
    [k \in 1..Len(rs) |-> [result |-> rs[k], runs |-> 0, fn |-> ts[k].fn]]

\* Variant: the hook is taken to be there.
detectGCAssumesHook(g) == TRUE

\* const hasGC = !!globalThis.gc, for g telling whether globalThis.gc is set.
detectGC(g) == g

\* Variant: the warning does not look at the strategy.
missingHookWarningAnyStrategy(o, has) ==
    IF Opt(o, "verbosity", 1) > 0 /\ ~has THEN 1 ELSE 0

\* The warning of the header block of run(): the number of times
\* Logger.warn('No GC hook! ...') is called, for the options o and hasGC.
missingHookWarning(o, has) ==
    IF Opt(o, "verbosity", 1) > 0
    THEN (IF ~has /\ Opt(o, "gcStrategy", "periodic") # "never" THEN 1 ELSE 0)
    ELSE 0

\* From the call of run() to the head of the cycle loop.
RunBody(n, o) ==
    /\ iterations' = n
    /\ options' = o
    /\ hasGC' = detectGC(gc)
    /\ iterationCount' = 0
    /\ heap' = ResetResults(tests)
    /\ results' = [k \in 1..Len(tests) |-> k]
    /\ cycle' = 1
    /\ queue' = <<>>
    /\ i' = 0
    /\ pc' = "cycle"
    /\ promise' = "pending"
    /\ error' = "none"
    /\ started' = Zeros
    /\ returned' = Zeros
    /\ cycleCalls' = Zeros
    /\ gcCount' = 0
    /\ coolCount' = 0
    /\ validateCount' = 0
    /\ lastValidate' = NotCalled
    /\ stale' = \E k \in DOMAIN results : heap[results[k]].samples # <<>>
    /\ warnings' = missingHookWarning(o, detectGC(gc))
    /\ arg' = NotCalled
    /\ configured' = store
    /\ groups' = [opened |-> IF Opt(o, "verbosity", 1) > 0 THEN 1 ELSE 0, closed |-> 0]
    /\ UNCHANGED <<tests, gc, store, asked, tValue, procs, cmd>>

Run(n, o) ==
    /\ pc \in {"idle", "done"}
    /\ invoked' = "run"
    /\ requested' = [n |-> n, o |-> o]
    /\ RunBody(n, o)
    /\ UNCHANGED earlier

\* Variant: the caller's options are passed on whole, with verbosity 0.
PreheatRunOptionsPassesAll(o) == Merge(o, [verbosity |-> 0])

\* preheat(iterations, {value, verbosity, gcStrategy, gcInterval}): the
\* options object it builds for run(); value, gcStrategy and gcInterval
\* are undefined in it when the caller left them out.
PreheatRunOptions(o) ==
    [f \in {"verbosity"} \cup (DOMAIN o \cap {"value", "gcStrategy", "gcInterval"}) |->
        IF f = "verbosity" THEN 0 ELSE o[f]]

Preheat(n, o) ==
    /\ pc \in {"idle", "done"}
    /\ invoked' = "preheat"
    /\ requested' = [n |-> n, o |-> o]
    /\ RunBody(n, PreheatRunOptions(o))
    /\ UNCHANGED earlier

\* Variant: the call counter starts again with every cycle.
CycleStartResetsCount ==
    /\ pc = "cycle"
    /\ cycle <= cycles
    /\ gcCount' = gcCount + (IF hasGC /\ gcStrategy = "per-cycle" THEN 1 ELSE 0)
    /\ queue' = PrepareQueue(results, tests)
    /\ cycleCalls' = Zeros
    /\ iterationCount' = 0
    /\ pc' = "pick"
    /\ UNCHANGED <<tests, results, heap, gc, iterations, options, hasGC,
                   cycle, i, promise, error, started, returned, coolCount, validateCount,
                   lastValidate, invoked, stale, warnings, requested, groups, valueVars, aside>>

\* Head of the cycle loop with a cycle to run: GC per cycle, new queue.
CycleStart ==
    /\ pc = "cycle"
    /\ cycle <= cycles
    /\ gcCount' = gcCount + (IF hasGC /\ gcStrategy = "per-cycle" THEN 1 ELSE 0)
    /\ queue' = PrepareQueue(results, tests)
    /\ cycleCalls' = Zeros
    /\ pc' = "pick"
    /\ UNCHANGED <<tests, results, heap, gc, iterations, options, hasGC, iterationCount,
                   cycle, i, promise, error, started, returned, coolCount, validateCount,
                   lastValidate, invoked, stale, warnings, requested, groups, valueVars, aside>>

\* Head of the while loop with an empty queue: on to the next cycle.
CycleEnd ==
    /\ pc = "pick"
    /\ queue = <<>>
    /\ cycle' = cycle + 1
    /\ pc' = "cycle"
    /\ UNCHANGED <<tests, results, heap, gc, iterations, options, hasGC, iterationCount,
                   queue, i, promise, error, observed, invoked, stale, warnings, requested, groups, valueVars, aside>>

\* Variant: the call is not awaited, the loop goes on while it is pending.
PickWithoutAwait(k) ==
    /\ pc \in {"pick", "call"}
    /\ k \in 1..Len(queue)
    /\ i' = k
    /\ started' = [started EXCEPT ![queue[k].fn.id] = @ + 1]
    /\ pc' = "call"
    /\ UNCHANGED <<tests, results, heap, gc, iterations, options, hasGC, iterationCount,
                   cycle, queue, promise, error, returned, cycleCalls, gcCount,
                   coolCount, validateCount, lastValidate, invoked, stale, warnings, requested, groups, valueVars, aside>>

\* Variant: the loop body runs once before the queue is looked at, and the
\* pick from an empty queue throws a TypeError into the catch clause.
PickBeforeTest(k) ==
    /\ pc = "pick"
    /\ IF queue = <<>>
       THEN /\ k = 1
            /\ cycleCalls = Zeros
            /\ error' = "throw"
            /\ pc' = "done"
            /\ promise' = "resolved"
            /\ groups' = [opened |-> groups.opened + 1, closed |-> groups.closed + 1]
            /\ UNCHANGED <<i, started>>
       ELSE /\ k \in 1..Len(queue)
            /\ i' = k
            /\ started' = [started EXCEPT ![queue[k].fn.id] = @ + 1]
            /\ pc' = "call"
            /\ UNCHANGED <<promise, error, groups>>
    /\ UNCHANGED <<tests, results, heap, gc, iterations, options, hasGC, iterationCount,
                   cycle, queue, returned, cycleCalls, gcCount,
                   coolCount, validateCount, lastValidate, invoked, stale, warnings, requested,
                   valueVars, aside>>

\* Variant: the copy shares the nested objects of the original.
structuredCloneShallow(s, r) ==
    [store |-> Append(s, s[r]), ref |-> Len(s) + 1]

\* structuredClone(value) of the object at reference r of the store s: new
\* objects with the same data, at fresh references, for the object and for
\* the object nested in it (child 0: none).
structuredClone(s, r) ==
    IF s[r].child = 0
    THEN [store |-> Append(s, s[r]), ref |-> Len(s) + 1]
    ELSE [store |-> s \o <<[s[r] EXCEPT !.child = Len(s) + 2], s[s[r].child]>>,
          ref |-> Len(s) + 1]

\* clonedValue of #prepareIteration:
\* value && typeof value === 'object' ? structuredClone(value) : value
clonedValue(s, value) ==
    IF Truthy(value) /\ typeOf(value) = "object"
    THEN LET c == structuredClone(s, value.ref)
         IN [store |-> c.store, value |-> JObject(c.ref)]
    ELSE [store |-> s, value |-> value]

\* #prepareIteration and the call of test.fn(clonedValue): k is the random
\* index.
Pick(k) ==
    /\ pc = "pick"
    /\ k \in 1..Len(queue)
    /\ i' = k
    /\ started' = [started EXCEPT ![queue[k].fn.id] = @ + 1]
    /\ LET c == clonedValue(store, Opt(options, "value", JUndefined))
       IN store' = c.store /\ arg' = c.value
    /\ pc' = "call"
    /\ UNCHANGED <<tests, results, heap, gc, iterations, options, hasGC, iterationCount,
                   cycle, queue, promise, error, returned, cycleCalls, gcCount,
                   coolCount, validateCount, lastValidate, invoked, stale, warnings, requested,
                   configured, groups, aside>>

\* The test function under way writes to its argument: to the object itself
\* or to the object nested in it.
Mutate(nested) ==
    /\ pc = "call"
    /\ arg.type = "object"
    /\ LET r == IF nested THEN store[arg.ref].child ELSE arg.ref
       IN /\ r # 0
          /\ store' = [store EXCEPT ![r].data = 1 - @]
    /\ UNCHANGED <<tests, results, heap, gc, locals, pc, promise, error, observed, invoked,
                   stale, warnings, requested, arg, configured, groups, aside>>

\* Variant: the first sample of a cycle replaces the samples of the cycles before.
RecordSamplePerCycle(h, test, runTime) ==
    [h EXCEPT ![test.result].totalTime = IF test.runs = 0 THEN runTime ELSE @ + runTime,
              ![test.result].samples = IF test.runs = 0 THEN <<runTime>>
                                       ELSE Append(@, runTime)]

\* Variant: totalTime is assigned, not added to.
RecordSampleAssignsTotal(h, test, runTime) ==
    [h EXCEPT ![test.result].totalTime = runTime,
              ![test.result].samples = Append(@, runTime)]

\* test.result.totalTime += runTime; test.result.samples.push(runTime)
RecordSample(h, test, runTime) ==
    [h EXCEPT ![test.result].totalTime = @ + runTime,
              ![test.result].samples = Append(@, runTime)]

\* Variant: the entry is dropped one call late.
TestCompletedLate(runs, n) == runs > n

\* ++test.runs === iterations, for the incremented count runs.
TestCompleted(runs, n) == runs = n

\* Variant: only a falsy return fails the validation.
ValidationFailsWhenFalsy(v) == ~Truthy(v)

\* const validationResult = validate(result, value) || 'Validation failed';
\* if (validationResult !== true) throw validationResult
ValidationFails(v) == JOr(v, JString("Validation failed")) # JTrue

\* Variant: validates before the sample is recorded.
handleIterationValidatesFirst(h, q, k, runTime, n, o, v) ==
    LET test == q[k]
        testCompleted == TestCompleted(test.runs + 1, n)
        thrown == Has(o, "validate") /\ ValidationFails(v)
    IN [heap |-> IF thrown THEN h ELSE RecordSample(h, test, runTime),
        queue |-> IF thrown THEN q
                  ELSE IF testCompleted THEN RemoveAt(q, k)
                  ELSE [q EXCEPT ![k].runs = @ + 1],
        testCompleted |-> testCompleted,
        validated |-> Has(o, "validate"),
        thrown |-> thrown]

\* Variant: a test that has made its calls stays in the queue.
handleIterationKeepsCompleted(h, q, k, runTime, n, o, v) ==
    LET test == q[k]
        testCompleted == TestCompleted(test.runs + 1, n)
    IN [heap |-> RecordSample(h, test, runTime),
        queue |-> [q EXCEPT ![k].runs = @ + 1],
        testCompleted |-> testCompleted,
        validated |-> Has(o, "validate"),
        thrown |-> Has(o, "validate") /\ ValidationFails(v)]

\* #handleIteration on queue entry k of q: record the sample, count the run,
\* drop a completed test from the queue, then validate.  v is what the
\* validate callback returns.  validated tells that the callback was called,
\* thrown that the method threw, after the changes to the result and the
\* queue were made.
handleIteration(h, q, k, runTime, n, o, v) ==
    LET test == q[k]
        testCompleted == TestCompleted(test.runs + 1, n)
    IN [heap |-> RecordSample(h, test, runTime),
        queue |-> IF testCompleted THEN RemoveAt(q, k)
                  ELSE [q EXCEPT ![k].runs = @ + 1],
        testCompleted |-> testCompleted,
        validated |-> Has(o, "validate"),
        thrown |-> Has(o, "validate") /\ ValidationFails(v)]

\* Variant: per-cycle collects in the loop too, when a test has made its calls.
handleGarbageCollectionPerCycleInLoop(strategy, testCompleted, count, interval) ==
    CASE strategy \in {"per-test", "per-cycle"} -> IF testCompleted THEN 1 ELSE 0
      [] strategy = "periodic" -> IF count % interval = 0 THEN 1 ELSE 0
      [] OTHER -> 0

\* Variant: per-test collects after every call.
handleGarbageCollectionAfterEveryCall(strategy, testCompleted, count, interval) ==
    CASE strategy = "per-test" -> 1
      [] strategy = "periodic" -> IF count % interval = 0 THEN 1 ELSE 0
      [] OTHER -> 0

\* Variant: never is taken for periodic.
handleGarbageCollectionNeverIsPeriodic(strategy, testCompleted, count, interval) ==
    CASE strategy = "per-test" -> IF testCompleted THEN 1 ELSE 0
      [] strategy \in {"periodic", "never"} -> IF count % interval = 0 THEN 1 ELSE 0
      [] OTHER -> 0

\* #handleGarbageCollection: the number of calls of globalThis.gc it makes.
handleGarbageCollection(strategy, testCompleted, count, interval) ==
    CASE strategy = "per-test" -> IF testCompleted THEN 1 ELSE 0
      [] strategy = "periodic" -> IF count % interval = 0 THEN 1 ELSE 0
      [] OTHER -> 0

\* Variant: the catch clause throws the error again.
CaughtRethrows(kind) ==
    /\ error' = kind
    /\ pc' = "done"
    /\ promise' = "rejected"
    /\ groups' = [opened |-> groups.opened + 1, closed |-> groups.closed + 1]
    /\ UNCHANGED <<cycle, gcCount, coolCount>>

\* Variant: the catch clause leaves the cycle only, and the next one starts.
CaughtSkipsCycle(kind) ==
    /\ error' = kind
    /\ pc' = "cycle"
    /\ cycle' = cycle + 1
    /\ groups' = [opened |-> groups.opened + 1, closed |-> groups.closed + 1]
    /\ UNCHANGED <<promise, gcCount, coolCount>>

\* The catch clause of run(): Logger.group().error(...).groupEnd() reports
\* the error in a group of its own, then return this.
Caught(kind) ==
    /\ error' = kind
    /\ pc' = "done"
    /\ promise' = "resolved"
    /\ groups' = [opened |-> groups.opened + 1, closed |-> groups.closed + 1]
    /\ UNCHANGED <<cycle, gcCount, coolCount>>

\* The awaited call throws (or its promise rejects).
CallThrow ==
    /\ pc = "call"
    /\ Caught("throw")
    /\ UNCHANGED <<tests, results, heap, gc, iterations, options, hasGC, iterationCount,
                   queue, i, started, returned, cycleCalls, validateCount, lastValidate,
                   invoked, stale, warnings, requested, configured, aside>>
    /\ arg' = NotCalled
    /\ store' = SubSeq(store, 1, Len(configured))

\* The awaited call returns after runTime milliseconds: the rest of the loop
\* body, up to the next await.
CallReturnAfter(v, runTime) ==
    /\ pc = "call"
    /\ v \in (IF Has(options, "validate") THEN options.validate ELSE {JUndefined})
    /\ LET fn == queue[i].fn
           hi == handleIteration(heap, queue, i, runTime, iterations, options, v)
       IN /\ iterationCount' = iterationCount + 1
          /\ heap' = hi.heap
          /\ queue' = hi.queue
          /\ returned' = [returned EXCEPT ![fn.id] = @ + 1]
          /\ cycleCalls' = [cycleCalls EXCEPT ![fn.id] = @ + 1]
          /\ validateCount' = validateCount + (IF hi.validated THEN 1 ELSE 0)
          /\ lastValidate' = IF hi.validated THEN v ELSE lastValidate
          /\ IF hi.thrown
             THEN Caught("validation")
             ELSE /\ gcCount' = gcCount +
                        (IF hasGC
                         THEN handleGarbageCollection(gcStrategy, hi.testCompleted,
                                                      iterationCount', gcInterval)
                         ELSE 0)
                  /\ IF coolDown # 0
                     THEN pc' = "cool" /\ coolCount' = coolCount + 1
                     ELSE pc' = "pick" /\ coolCount' = coolCount
                  /\ UNCHANGED <<cycle, promise, error, groups>>
    /\ arg' = NotCalled
    /\ store' = SubSeq(store, 1, Len(configured))
    /\ UNCHANGED <<tests, results, gc, iterations, options, hasGC, i, started, invoked, stale,
                   warnings, requested, configured, aside>>

\* The awaited call returns, on a clock that gives every call of a test the
\* same time.
CallReturn(v) == pc = "call" /\ CallReturnAfter(v, queue[i].fn.cost)

\* The cool-down timer fires.
CoolDownElapsed ==
    /\ pc = "cool"
    /\ pc' = "pick"
    /\ UNCHANGED <<tests, results, heap, gc, locals, promise, error, observed, invoked, stale, warnings, requested, groups, valueVars, aside>>

\* Head of the cycle loop with all cycles done: statistics, report, return.
Finish ==
    /\ pc = "cycle"
    /\ cycle > cycles
    /\ heap' = calculateStatistics(heap, results, 1)
    /\ results' = IF verbosity > 0 THEN printResults(results, heap') ELSE results
    /\ groups' = [groups EXCEPT !.closed = @ + (IF verbosity > 0 THEN 1 ELSE 0)]
    /\ pc' = "done"
    /\ promise' = "resolved"
    /\ UNCHANGED <<tests, gc, locals, error, observed, invoked, stale, warnings, requested,
                   valueVars, aside>>

Next ==
    \/ \E t \in TestInputs : Test(t.named, t.name, t.cost)
    \/ \E n \in 1..MaxCalls, o \in RunOptions : pc = "idle" /\ Run(n, o)
    \/ \E n \in 1..MaxCalls, o \in RerunOptions : pc = "done" /\ Run(n, o)
    \/ \E n \in 1..MaxCalls, o \in PreheatOptions : Preheat(n, o)
    \/ CycleStart
    \/ CycleEnd
    \/ \E k \in 1..MaxTests : Pick(k)
    \/ CallThrow
    \/ \E v \in ValidateAny : CallReturn(v)
    \/ CoolDownElapsed
    \/ Finish

Spec == Init /\ [][Next]_vars

\* The steps of a run that is under way.
RunStep ==
    \/ CycleStart
    \/ CycleEnd
    \/ \E k \in 1..MaxTests : Pick(k)
    \/ CallThrow
    \/ \E v \in ValidateAny : CallReturn(v)
    \/ CoolDownElapsed
    \/ Finish

\* The suite on any host, under every garbage collection option: tests are
\* registered, then the suite is run, or preheated and then run.
NextGC ==
    \/ Test(FALSE, "", 1)
    \/ \E n \in 1..MaxCalls, o \in GcRunOptions : pc = "idle" /\ Run(n, o)
    \/ \E n \in 1..MaxCalls, o \in GcPreheatOptions : pc = "idle" /\ Preheat(n, o)
    \/ \E n \in 1..MaxCalls, o \in GcRerunOptions :
          pc = "done" /\ invoked = "preheat" /\ Run(n, o)
    \/ CycleStart
    \/ CycleEnd
    \/ \E k \in 1..MaxTests : Pick(k)
    \/ CallThrow
    \/ \E v \in ValidateAny : CallReturn(v)
    \/ CoolDownElapsed
    \/ Finish

SpecGC == InitGC /\ [][NextGC]_vars

\* The event loop resumes run() after every await: the awaited call
\* settles, the cool-down timer fires, and the code between two awaits runs
\* to the next one.
FairSpecGC == SpecGC /\ WF_vars(RunStep)

(***************************************************************************)
(* The value option.  The caller holds two objects, one nested in the      *)
(* other; a run gets one of them, or a value that is not an object, as its *)
(* value, and the tests write to what they are passed.                     *)
(***************************************************************************)
CallerObjects == <<[data |-> 0, child |-> 2], [data |-> 0, child |-> 0]>>

Values == {JObject(1), JObject(2), JNumber("1"), JString(""), JNull}

ValueRunOptions ==
    {[verbosity |-> 0, value |-> v] : v \in Values}
    \cup {[verbosity |-> 0, value |-> JObject(1), coolDown |-> 1, validate |-> ValidateAny]}

ValuePreheatOptions == {[value |-> JObject(1)]}

InitValue == gc = TRUE /\ Constructed /\ store = CallerObjects /\ Elsewhere

NextValue ==
    \/ Test(FALSE, "", 1)
    \/ \E n \in 1..MaxCalls, o \in ValueRunOptions : Run(n, o)
    \/ \E n \in 1..MaxCalls, o \in ValuePreheatOptions : pc = "idle" /\ Preheat(n, o)
    \/ CycleStart
    \/ CycleEnd
    \/ \E k \in 1..MaxTests : Pick(k)
    \/ \E nested \in BOOLEAN : Mutate(nested)
    \/ CallThrow
    \/ \E v \in ValidateAny : CallReturn(v)
    \/ CoolDownElapsed
    \/ Finish

SpecValue == InitValue /\ [][NextValue]_vars

(***************************************************************************)
(* The random pick.  Math.random() returns a number in [0, 1); the draws   *)
(* are the RandomGrid equally likely numbers r / RandomGrid, a grid that   *)
(* every queue length divides.                                             *)
(***************************************************************************)
RECURSIVE Factorial(_)
Factorial(n) == IF n = 0 THEN 1 ELSE n * Factorial(n - 1)

RandomGrid == 2 * Factorial(MaxTests)

Draws == 0..(RandomGrid - 1)

\* Variant: the product is rounded to the nearest index.
randomIndexRounded(r, length) == (2 * r * length + RandomGrid) \div (2 * RandomGrid)

\* Math.floor(Math.random() * queue.length) for the draw r / RandomGrid: a
\* zero-based index.
randomIndex(r, length) == (r * length) \div RandomGrid

\* #prepareIteration with the draw r.
PickRandom(r) == pc = "pick" /\ queue # <<>> /\ Pick(randomIndex(r, Len(queue)) + 1)

NextRandom ==
    \/ Test(FALSE, "", 1)
    \/ \E n \in 1..MaxCalls, c \in CycleOptions :
          pc = "idle" /\ Run(n, Merge(c, [verbosity |-> 0]))
    \/ CycleStart
    \/ CycleEnd
    \/ \E r \in Draws : PickRandom(r)
    \/ CallReturn(JUndefined)
    \/ Finish

SpecRandom == Init /\ [][NextRandom]_vars

(***************************************************************************)
(* A long run with the defaults: one test, ManyCalls calls, and an options *)
(* object that names neither cycles nor gcStrategy nor gcInterval.         *)
(***************************************************************************)
ManyCalls == 1000

NextDefaults ==
    \/ Test(FALSE, "", 1)
    \/ pc = "idle" /\ Len(tests) = 1 /\ Run(ManyCalls, [verbosity |-> 0])
    \/ CycleStart
    \/ CycleEnd
    \/ Pick(1)
    \/ CallReturn(JUndefined)
    \/ Finish

SpecDefaults == InitGC /\ [][NextDefaults]_vars

(***************************************************************************)
(* The command line.  One invocation is the process the user starts and    *)
(* the child it may spawn.  A process has gc (globalThis.gc is a           *)
(* function), exposeGc (--expose-gc is in process.execArgv), the           *)
(* environment variables BENCH_NO_EXPOSE_GC and BENCH_RESTARTED ("unset"   *)
(* when not in the environment), the arguments of the run command, its     *)
(* position in main(), the calls of spawn it made and how it exited.       *)
(***************************************************************************)
MaxFiles == 2
MaxProcs == 3

\* What is at a path given with --files: exists tells that a file is there,
\* loads that loadModule returns its exports; default, benchmark and test
\* that the export of that name is a function, callable that the module
\* itself is one, others how many functions it exports under other names.
NoFile ==
    [exists |-> FALSE, loads |-> FALSE, default |-> FALSE, benchmark |-> FALSE,
     test |-> FALSE, callable |-> FALSE, others |-> 0]

Broken == [NoFile EXCEPT !.exists = TRUE]

Exporting(default, benchmark, test, callable, others) ==
    [exists |-> TRUE, loads |-> TRUE, default |-> default, benchmark |-> benchmark,
     test |-> test, callable |-> callable, others |-> others]

\* Every module: each of the four patterns met or not, and no or two other
\* functions exported.
Modules ==
    {Exporting(d, b, t, c, o) : d \in BOOLEAN, b \in BOOLEAN, t \in BOOLEAN,
                                c \in BOOLEAN, o \in {0, 2}}

\* For the command line as a whole: no file; a module that throws when it is
\* loaded; one with a default export; one with two functions under other
\* names; one that exports no function.
FileKinds ==
    {NoFile, Broken, Exporting(TRUE, FALSE, FALSE, FALSE, 0),
     Exporting(FALSE, FALSE, FALSE, FALSE, 2), Exporting(FALSE, FALSE, FALSE, FALSE, 0)}

FileLists == UNION {[1..n -> FileKinds] : n \in 1..MaxFiles}

\* --files, --preheat (0 or 1 iteration), --export; --runs 1.
Arguments == [files : FileLists, preheat : {0, 1}, export : BOOLEAN]

NotExited == [kind |-> "none", code |-> 0]
ExitCode(c) == [kind |-> "code", code |-> c]
ExitSignal == [kind |-> "signal", code |-> 0]

Started ==
    [gc : BOOLEAN, exposeGc : BOOLEAN, noExposeGc : {"unset", "true", "false"},
     restarted : {"unset", "", "true"}, argv : Arguments,
     pc : {"main"}, spawns : {0}, exit : {NotExited}]

InitCLI ==
    /\ gc = TRUE
    /\ Constructed
    /\ store = <<>>
    /\ asked = 0
    /\ tValue = 0
    /\ cmd = NoCommand
    /\ \E p \in Started : procs = <<p>>

\* Variant: the restart is needed whenever the hook is missing.
needsExposeGCWhenNoHook(p) == ~p.gc

\* needsExposeGC()
needsExposeGC(p) ==
    IF p.gc THEN FALSE
    ELSE IF p.exposeGc THEN FALSE
    ELSE IF p.noExposeGc = "true" THEN FALSE
    ELSE TRUE

\* Variant: main() restarts whatever BENCH_RESTARTED is.
shouldRestartAgain(p) == needsExposeGC(p)

\* needsExposeGC() && !process.env.BENCH_RESTARTED: undefined and the empty
\* string are falsy.
shouldRestart(p) == needsExposeGC(p) /\ p.restarted \in {"unset", ""}

\* The process spawn() starts: node with --expose-gc first, the same
\* arguments, the same environment with BENCH_RESTARTED: 'true'.
Child(p) ==
    [p EXCEPT !.gc = TRUE, !.exposeGc = TRUE, !.restarted = "true",
              !.pc = "main", !.spawns = 0, !.exit = NotExited]

\* The processes of one invocation are followed up to MaxProcs of them.
CanSpawn == Len(procs) < MaxProcs

\* main() calls restartWithExposeGC() and the child starts.
Restart(p) ==
    /\ p \in DOMAIN procs
    /\ procs[p].pc = "main"
    /\ shouldRestart(procs[p])
    /\ CanSpawn
    /\ procs' = Append([procs EXCEPT ![p].pc = "waiting", ![p].spawns = @ + 1],
                       Child(procs[p]))
    /\ UNCHANGED <<tests, results, heap, gc, pc, locals, promise, error, observed, invoked,
                   stale, warnings, requested, groups, earlier, valueVars, asked, tValue, cmd>>

\* main() calls restartWithExposeGC() and the child emits 'error': two
\* warnings, the promise resolves, main() returns.
RestartFails(p) ==
    /\ p \in DOMAIN procs
    /\ procs[p].pc = "main"
    /\ shouldRestart(procs[p])
    /\ CanSpawn
    /\ procs' = [procs EXCEPT ![p].pc = "returned", ![p].spawns = @ + 1]
    /\ UNCHANGED <<tests, results, heap, gc, pc, locals, promise, error, observed, invoked,
                   stale, warnings, requested, groups, earlier, valueVars, asked, tValue, cmd>>

\* After main() has returned nothing is pending: the process ends with the
\* exit code 0.
Returned(p) ==
    /\ p \in DOMAIN procs
    /\ procs[p].pc = "returned"
    /\ procs' = [procs EXCEPT ![p].pc = "exited", ![p].exit = ExitCode(0)]
    /\ UNCHANGED <<tests, results, heap, gc, pc, locals, promise, error, observed, invoked,
                   stale, warnings, requested, groups, earlier, valueVars, asked, tValue, cmd>>

\* main() calls run(): the handler of the run command starts.
StartCommand(p) ==
    /\ p \in DOMAIN procs
    /\ procs[p].pc = "main"
    /\ ~shouldRestart(procs[p])
    /\ procs' = [procs EXCEPT ![p].pc = "command"]
    /\ cmd' = [NoCommand EXCEPT !.proc = p, !.pc = "check"]
    /\ UNCHANGED <<tests, results, heap, gc, pc, locals, promise, error, observed, invoked,
                   stale, warnings, requested, groups, earlier, valueVars, asked, tValue>>

files == procs[cmd.proc].argv.files

Rejected(message) == [cmd EXCEPT !.pc = "rejected", !.error = message]

\* Variant: the files are not looked for before they are loaded.
CheckFilesSkipped ==
    /\ cmd.pc = "check"
    /\ cmd' = [cmd EXCEPT !.pc = "load", !.k = 1]
    /\ UNCHANGED <<tests, results, heap, gc, pc, locals, promise, error, observed, invoked,
                   stale, warnings, requested, groups, earlier, valueVars, asked, tValue, procs>>

\* The first loop of the handler: every path is looked for, and the first
\* one that is not there throws.
CheckFiles ==
    /\ cmd.pc = "check"
    /\ cmd' = IF \E j \in DOMAIN files : ~files[j].exists
              THEN Rejected("File not found")
              ELSE [cmd EXCEPT !.pc = "load", !.k = 1]
    /\ UNCHANGED <<tests, results, heap, gc, pc, locals, promise, error, observed, invoked,
                   stale, warnings, requested, groups, earlier, valueVars, asked, tValue, procs>>

\* The names the functions exported under other names have.
OtherKeys == <<"a", "b">>

\* bench.test(fileName, fn) for the export key of file k, and
\* bench.test(`${fileName}#${key}`, value) when suffix is the key.
Registration(k, key, suffix) == [name |-> <<k, suffix>>, fn |-> <<k, key>>]

\* Variant: the export named benchmark is looked at before the default export.
RegistersBenchmarkFirst(k, file) ==
    IF file.benchmark THEN <<Registration(k, "benchmark", "")>>
    ELSE IF file.default THEN <<Registration(k, "default", "")>>
    ELSE IF file.test THEN <<Registration(k, "test", "")>>
    ELSE IF file.callable THEN <<Registration(k, "module", "")>>
    ELSE [j \in 1..file.others |-> Registration(k, OtherKeys[j], OtherKeys[j])]

\* The tests the load loop registers for the module of file k: by the
\* first of the four patterns that matches, or else one for every function
\* among Object.entries(moduleExports).
Registers(k, file) ==
    IF file.default THEN <<Registration(k, "default", "")>>
    ELSE IF file.benchmark THEN <<Registration(k, "benchmark", "")>>
    ELSE IF file.test THEN <<Registration(k, "test", "")>>
    ELSE IF file.callable THEN <<Registration(k, "module", "")>>
    ELSE [j \in 1..file.others |-> Registration(k, OtherKeys[j], OtherKeys[j])]

\* One turn of the load loop: loadModule, then bench.test for what the
\* module exports; a module that cannot be loaded or exports no function
\* throws, and the catch clause throws 'Error loading ...'.
LoadFile ==
    /\ cmd.pc = "load"
    /\ cmd.k <= Len(files)
    /\ cmd' = IF ~files[cmd.k].loads \/ Registers(cmd.k, files[cmd.k]) = <<>>
              THEN [Rejected("Error loading") EXCEPT !.loaded = @ + 1]
              ELSE [cmd EXCEPT !.k = @ + 1, !.loaded = @ + 1,
                               !.registered = @ \o Registers(cmd.k, files[cmd.k])]
    /\ UNCHANGED <<tests, results, heap, gc, pc, locals, promise, error, observed, invoked,
                   stale, warnings, requested, groups, earlier, valueVars, asked, tValue, procs>>

\* Variant: the handler goes on to the measured run whatever --preheat is.
LoadedSkipsPreheat ==
    /\ cmd.pc = "load"
    /\ cmd.k > Len(files)
    /\ cmd' = IF cmd.registered = <<>> THEN Rejected("No test functions found to benchmark")
              ELSE [cmd EXCEPT !.pc = "run"]
    /\ UNCHANGED <<tests, results, heap, gc, pc, locals, promise, error, observed, invoked,
                   stale, warnings, requested, groups, earlier, valueVars, asked, tValue, procs>>

\* After the load loop: no test throws; otherwise preheat, if asked for.
Loaded ==
    /\ cmd.pc = "load"
    /\ cmd.k > Len(files)
    /\ cmd' = IF cmd.registered = <<>> THEN Rejected("No test functions found to benchmark")
              ELSE IF procs[cmd.proc].argv.preheat # 0 THEN [cmd EXCEPT !.pc = "preheat"]
              ELSE [cmd EXCEPT !.pc = "run"]
    /\ UNCHANGED <<tests, results, heap, gc, pc, locals, promise, error, observed, invoked,
                   stale, warnings, requested, groups, earlier, valueVars, asked, tValue, procs>>

\* bench.preheat(preheat, ...) is called: every test is to be called
\* preheat times.
PreheatBench ==
    /\ cmd.pc = "preheat"
    /\ cmd' = [cmd EXCEPT !.pc = "preheating",
                          !.calls = @ + procs[cmd.proc].argv.preheat * Len(cmd.registered)]
    /\ UNCHANGED <<tests, results, heap, gc, pc, locals, promise, error, observed, invoked,
                   stale, warnings, requested, groups, earlier, valueVars, asked, tValue, procs>>

\* The awaited preheat resolves: bench.results are those of the preheat.
PreheatResolved ==
    /\ cmd.pc = "preheating"
    /\ cmd' = [cmd EXCEPT !.pc = "run", !.held = "preheat"]
    /\ UNCHANGED <<tests, results, heap, gc, pc, locals, promise, error, observed, invoked,
                   stale, warnings, requested, groups, earlier, valueVars, asked, tValue, procs>>

\* bench.run(runs, ...) is called, with --runs 1.
RunBench ==
    /\ cmd.pc = "run"
    /\ cmd' = [cmd EXCEPT !.pc = "running", !.calls = @ + Len(cmd.registered)]
    /\ UNCHANGED <<tests, results, heap, gc, pc, locals, promise, error, observed, invoked,
                   stale, warnings, requested, groups, earlier, valueVars, asked, tValue, procs>>

\* The awaited run resolves: bench.results are those of the run.
RunResolved ==
    /\ cmd.pc = "running"
    /\ cmd' = [cmd EXCEPT !.pc = IF procs[cmd.proc].argv.export THEN "export" ELSE "resolved",
                          !.held = "run"]
    /\ UNCHANGED <<tests, results, heap, gc, pc, locals, promise, error, observed, invoked,
                   stale, warnings, requested, groups, earlier, valueVars, asked, tValue, procs>>

\* if (shouldExport) bench.exportToJson(jsonFileName): writes this.results.
Export ==
    /\ cmd.pc = "export"
    /\ cmd' = [cmd EXCEPT !.pc = "resolved", !.exported = cmd.held]
    /\ UNCHANGED <<tests, results, heap, gc, pc, locals, promise, error, observed, invoked,
                   stale, warnings, requested, groups, earlier, valueVars, asked, tValue, procs>>

\* run(...).then(() => process.exit(0)).catch(... process.exit(1))
Exit(p) ==
    /\ p \in DOMAIN procs
    /\ cmd.proc = p
    /\ cmd.pc \in {"resolved", "rejected"}
    /\ procs[p].pc = "command"
    /\ procs' = [procs EXCEPT ![p].pc = "exited",
                              ![p].exit = ExitCode(IF cmd.pc = "resolved" THEN 0 ELSE 1)]
    /\ UNCHANGED <<tests, results, heap, gc, pc, locals, promise, error, observed, invoked,
                   stale, warnings, requested, groups, earlier, valueVars, asked, tValue, cmd>>

\* The child is ended by a signal before it has exited.
Signalled(p) ==
    /\ p \in DOMAIN procs
    /\ p > 1
    /\ procs[p].pc # "exited"
    /\ procs' = [procs EXCEPT ![p].pc = "exited", ![p].exit = ExitSignal]
    /\ UNCHANGED <<tests, results, heap, gc, pc, locals, promise, error, observed, invoked,
                   stale, warnings, requested, groups, earlier, valueVars, asked, tValue, cmd>>

\* Variant: the parent exits with the code 0 whatever the child's was.
ChildExitWithZero(p) ==
    /\ p \in DOMAIN procs
    /\ procs[p].pc = "waiting"
    /\ p + 1 \in DOMAIN procs
    /\ procs[p + 1].pc = "exited"
    /\ procs' = [procs EXCEPT ![p].pc = "exited", ![p].exit = ExitCode(0)]
    /\ UNCHANGED <<tests, results, heap, gc, pc, locals, promise, error, observed, invoked,
                   stale, warnings, requested, groups, earlier, valueVars, asked, tValue, cmd>>

\* child.on('exit'): the parent kills itself with the child's signal, or
\* exits with the child's code.
ChildExit(p) ==
    /\ p \in DOMAIN procs
    /\ procs[p].pc = "waiting"
    /\ p + 1 \in DOMAIN procs
    /\ procs[p + 1].pc = "exited"
    /\ procs' = [procs EXCEPT ![p].pc = "exited", ![p].exit = procs[p + 1].exit]
    /\ UNCHANGED <<tests, results, heap, gc, pc, locals, promise, error, observed, invoked,
                   stale, warnings, requested, groups, earlier, valueVars, asked, tValue, cmd>>

NextCLI ==
    \/ \E p \in 1..MaxProcs : Restart(p)
    \/ \E p \in 1..MaxProcs : RestartFails(p)
    \/ \E p \in 1..MaxProcs : Returned(p)
    \/ \E p \in 1..MaxProcs : StartCommand(p)
    \/ CheckFiles
    \/ LoadFile
    \/ Loaded
    \/ PreheatBench
    \/ PreheatResolved
    \/ RunBench
    \/ RunResolved
    \/ Export
    \/ \E p \in 1..MaxProcs : Exit(p)
    \/ \E p \in 1..MaxProcs : Signalled(p)
    \/ \E p \in 1..MaxProcs : ChildExit(p)

SpecCLI == InitCLI /\ [][NextCLI]_vars

\* The event loop of the parent delivers the 'exit' event of its child.
FairSpecCLI == SpecCLI /\ WF_vars(\E p \in 1..MaxProcs : ChildExit(p))

\* The run command on its own, in a process that has the hook, for every
\* list of modules of every shape, without preheat and export.
ModuleLists == UNION {[1..n -> Modules] : n \in 1..MaxFiles}

InitLoad ==
    /\ gc = TRUE
    /\ Constructed
    /\ store = <<>>
    /\ asked = 0
    /\ tValue = 0
    /\ cmd = NoCommand
    /\ \E fs \in ModuleLists :
          procs = <<[gc |-> TRUE, exposeGc |-> TRUE, noExposeGc |-> "unset",
                     restarted |-> "unset",
                     argv |-> [files |-> fs, preheat |-> 0, export |-> FALSE],
                     pc |-> "main", spawns |-> 0, exit |-> NotExited]>>

NextLoad ==
    \/ StartCommand(1)
    \/ CheckFiles
    \/ LoadFile
    \/ Loaded
    \/ RunBench
    \/ RunResolved
    \/ Exit(1)

SpecLoad == InitLoad /\ [][NextLoad]_vars

(***************************************************************************)
(* The clock.  performance.now() is read before and after every call; the  *)
(* difference is any whole number of milliseconds up to MaxTime, zero      *)
(* included (the clock of the host is coarse).  Suites of one or two       *)
(* tests, one cycle, up to MaxSamples calls.                               *)
(***************************************************************************)
MaxTime == 2
MaxSamples == 3

NextStats ==
    \/ Test(FALSE, "", 1)
    \/ \E n \in 1..MaxSamples : pc = "idle" /\ Len(tests) \in {1, 2} /\ Run(n, [verbosity |-> 0])
    \/ CycleStart
    \/ CycleEnd
    \/ \E k \in 1..MaxTests : Pick(k)
    \/ \E runTime \in 0..MaxTime : CallReturnAfter(JUndefined, runTime)
    \/ Finish

SpecStats == Init /\ [][NextStats]_vars

(***************************************************************************)
(* The statistics module on its own: the critical value is looked up for   *)
(* some number of degrees of freedom.                                      *)
(***************************************************************************)
MaxDf == 120

DegreesOfFreedom == 1..MaxDf \cup {10000}

InitT == gc = TRUE /\ Constructed /\ store = <<>> /\ procs = <<>> /\ cmd = NoCommand
         /\ asked \in DegreesOfFreedom /\ tValue = 0

Lookup ==
    /\ tValue = 0
    /\ tValue' = getTCritical95(asked)
    /\ UNCHANGED <<tests, results, heap, gc, pc, locals, promise, error, observed, invoked,
                   stale, warnings, requested, groups, earlier, valueVars, asked, procs, cmd>>

NextT == Lookup

SpecT == InitT /\ [][NextT]_vars

(***************************************************************************)
(* The suite run with any call count, 0 included.  A queue entry whose     *)
(* count of runs has passed the call count is never dropped, so the run    *)
(* has no end: the model follows such an entry for MaxOverrun calls.       *)
(***************************************************************************)
MaxOverrun == 2

AnyCountOptions == {Merge(c, v) : c \in CycleOptions, v \in {NoOptions, [verbosity |-> 0]}}

NextAnyCount ==
    \/ \E t \in TestInputs : Test(t.named, t.name, t.cost)
    \/ \E n \in 0..MaxCalls, o \in AnyCountOptions : pc = "idle" /\ Len(tests) >= 1 /\ Run(n, o)
    \/ CycleStart
    \/ CycleEnd
    \/ \E k \in 1..MaxTests :
          /\ k \in 1..Len(queue)
          /\ queue[k].runs < iterations + MaxOverrun
          /\ Pick(k)
    \/ CallReturn(JUndefined)
    \/ Finish

SpecAnyCount == Init /\ [][NextAnyCount]_vars

(***************************************************************************)
(* The caller at work while a run is suspended at an await (a test that    *)
(* has not returned yet, or a cool-down pause): the public methods test()  *)
(* and printResults() are called on the suite that is running.             *)
(***************************************************************************)
\* bench.test(...) during a run: this.#tests.push({name, fn}).
TestWhileRunning(named, name, cost) ==
    /\ pc \in {"call", "cool"}
    /\ Len(tests) < MaxTests
    /\ tests' = Append(tests, [name |-> RegisteredName(named, name),
                               fn |-> [id |-> Len(tests) + 1, cost |-> cost]])
    /\ UNCHANGED <<results, heap, gc, pc, locals, promise, error, observed, invoked, stale,
                   warnings, requested, groups, valueVars, aside>>

\* bench.printResults() during a run: this.results.sort(...) in place.
PrintResults ==
    /\ pc \in {"call", "cool"}
    /\ results' = printResults(results, heap)
    /\ UNCHANGED <<tests, heap, gc, pc, locals, promise, error, observed, invoked, stale,
                   warnings, requested, groups, valueVars, aside>>

CallerOptions ==
    {Merge(Merge(c, [verbosity |-> 0]), p) : c \in CycleOptions, p \in {NoOptions, [coolDown |-> 1]}}

NextCaller ==
    \/ \E t \in TestInputs : Test(t.named, t.name, t.cost)
    \/ \E n \in 1..MaxCalls, o \in CallerOptions : pc = "idle" /\ Len(tests) >= 1 /\ Run(n, o)
    \/ CycleStart
    \/ CycleEnd
    \/ \E k \in 1..MaxTests : Pick(k)
    \/ CallReturn(JUndefined)
    \/ CoolDownElapsed
    \/ Finish
    \/ \E t \in TestInputs : TestWhileRunning(t.named, t.name, t.cost)
    \/ PrintResults

SpecCaller == Init /\ [][NextCaller]_vars

(***************************************************************************)
(* run() called again on a suite whose run is suspended at an await.  The  *)
(* variables of the run are then those of the later run; the locals of the *)
(* earlier one are kept in earlier, with the result objects its queue      *)
(* refers to (own): this.results refers to new objects from then on.  A    *)
(* run goes on only while the other is suspended or has ended, and then    *)
(* up to its next await.  The test functions of this part return.          *)
(***************************************************************************)
ReentrantOptions ==
    {Merge(Merge(c, [verbosity |-> 0]), p) : c \in CycleOptions, p \in {NoOptions, [coolDown |-> 1]}}

\* The other run leaves the thread to this one.
LaterSuspended == pc \in {"call", "cool", "done"}

\* run(n, o) while the run under way awaits a call or a pause.
RunAgain(n, o) ==
    /\ pc \in {"call", "cool"}
    /\ earlier.pc = "none"
    /\ earlier' = [pc |-> pc, iterations |-> iterations, options |-> options,
                   hasGC |-> hasGC, iterationCount |-> iterationCount, cycle |-> cycle,
                   queue |-> queue, i |-> i, own |-> heap, error |-> "none"]
    /\ invoked' = "run"
    /\ requested' = [n |-> n, o |-> o]
    /\ RunBody(n, o)

\* The earlier run from the head of its while loop to its next await, with
\* the locals e and the heap h: the call of entry k of its queue; at the
\* head of a further cycle the queue is made anew, from this.results as it
\* is then; after the last cycle the statistics pass, the report, the end.
EarlierContinues(e, h, k) ==
    LET again == e.queue = <<>> /\ e.cycle < Opt(e.options, "cycles", 1)
        q == IF again THEN PrepareQueue(results, tests) ELSE e.queue
    IN IF q # <<>>
       THEN /\ k \in 1..Len(q)
            /\ earlier' = [e EXCEPT !.pc = "call", !.queue = q, !.i = k,
                                    !.cycle = IF again THEN @ + 1 ELSE @,
                                    !.own = IF again THEN <<>> ELSE @]
            /\ heap' = h
            /\ UNCHANGED results
       ELSE /\ k = 1
            /\ earlier' = [e EXCEPT !.pc = "done", !.cycle = @ + 1]
            /\ heap' = calculateStatistics(h, results, 1)
            /\ results' = IF Opt(e.options, "verbosity", 1) > 0
                          THEN printResults(results, heap') ELSE results

\* The call the earlier run awaits returns: #handleIteration on the result
\* object its queue entry refers to, then the pause, or on to the next call.
EarlierCallReturn(k) ==
    /\ earlier.pc = "call"
    /\ LaterSuspended
    /\ LET shared == earlier.own = <<>>
           hi == handleIteration(IF shared THEN heap ELSE earlier.own, earlier.queue,
                                 earlier.i, earlier.queue[earlier.i].fn.cost,
                                 earlier.iterations, earlier.options, JUndefined)
           e == [earlier EXCEPT !.queue = hi.queue, !.iterationCount = @ + 1,
                                !.own = IF shared THEN <<>> ELSE hi.heap]
           h == IF shared THEN hi.heap ELSE heap
       IN IF Opt(earlier.options, "coolDown", 0) # 0
          THEN /\ k = 1
               /\ earlier' = [e EXCEPT !.pc = "cool"]
               /\ heap' = h
               /\ UNCHANGED results
          ELSE EarlierContinues(e, h, k)
    /\ UNCHANGED <<tests, gc, pc, locals, promise, error, observed, invoked, stale, warnings,
                   requested, groups, valueVars, asked, tValue, procs, cmd>>

\* The cool-down timer of the earlier run fires.
EarlierCoolDownElapsed(k) ==
    /\ earlier.pc = "cool"
    /\ LaterSuspended
    /\ EarlierContinues(earlier, heap, k)
    /\ UNCHANGED <<tests, gc, pc, locals, promise, error, observed, invoked, stale, warnings,
                   requested, groups, valueVars, asked, tValue, procs, cmd>>

NextReentrant ==
    \/ Test(FALSE, "", 1)
    \/ \E n \in 1..MaxCalls, o \in ReentrantOptions :
          pc = "idle" /\ Len(tests) >= 1 /\ Run(n, o)
    \/ \E n \in 1..MaxCalls, o \in ReentrantOptions : RunAgain(n, o)
    \/ CycleStart
    \/ CycleEnd
    \/ \E k \in 1..MaxTests : Pick(k)
    \/ CallReturn(JUndefined)
    \/ CoolDownElapsed
    \/ Finish
    \/ \E k \in 1..MaxTests : EarlierCallReturn(k)
    \/ \E k \in 1..MaxTests : EarlierCoolDownElapsed(k)

SpecReentrant == Init /\ [][NextReentrant]_vars

(***************************************************************************)
(* Properties.                                                             *)
(***************************************************************************)
ResultAt(k) == heap[results[k]]
Succeeded == pc = "done" /\ error = "none"
Aborted == pc = "done" /\ error # "none"
InCycle == pc \in {"pick", "call", "cool"}

RECURSIVE SumSeq(_)
SumSeq(s) == IF s = <<>> THEN 0 ELSE s[1] + SumSeq(Tail(s))

RECURSIVE SumOver(_, _)
SumOver(f, n) == IF n = 0 THEN 0 ELSE f[n] + SumOver(f, n - 1)

TotalStarted == SumOver(started, Len(tests))
TotalReturned == SumOver(returned, Len(tests))
TotalSamples == SumOver([k \in DOMAIN results |-> Len(ResultAt(k).samples)], Len(results))

\* C1: after a run of C calls and K cycles that resolved without an error,
\* every TestResult holds C * K samples: the cycles accumulate.
C1_SamplesAccumulate ==
    Succeeded =>
        \A k \in DOMAIN results : Len(ResultAt(k).samples) = iterations * cycles

C1_Witness ==
    /\ Succeeded
    /\ invoked = "run"
    /\ cycles >= 2
    /\ iterations >= 2
    /\ Len(results) >= 2
    /\ \A k \in DOMAIN results : Len(ResultAt(k).samples) = iterations * cycles

\* C2: the promise of run is never rejected; once run has ended, after a
\* throwing call or a failed validation too, the promise is resolved.
C2_RunNeverRejects ==
    /\ promise # "rejected"
    /\ pc = "done" => promise = "resolved"
    /\ error # "none" => pc = "done"

C2_Witness == Aborted /\ error = "throw" /\ promise = "resolved" /\ TotalReturned >= 1

\* C3: the step in which a call throws or a validation fails ends the run,
\* without a forced collection or a cool-down pause; after it nothing of the
\* run happens any more (no call, collection, pause or cycle) until the
\* caller invokes the suite again.
C3_AbortEndsRun ==
    [][/\ (error = "none" /\ error' # "none") =>
            /\ pc' = "done"
            /\ gcCount' = gcCount
            /\ coolCount' = coolCount
            /\ cycle' = cycle
            /\ started' = started
       /\ error # "none" =>
            \/ pc' = "cycle" /\ cycle' = 1 /\ iterationCount' = 0 /\ error' = "none"
            \/ /\ pc' = "done"
               /\ started' = started
               /\ returned' = returned
               /\ gcCount' = gcCount
               /\ coolCount' = coolCount
               /\ cycle' = cycle]_vars

C3_Witness ==
    /\ Aborted
    /\ error = "validation"
    /\ hasGC /\ gcInterval = 1 /\ coolDown # 0
    /\ queue # <<>>
    /\ cycle < cycles
    /\ gcCount = TotalReturned - 1
    /\ coolCount = TotalReturned - 1
    /\ TotalReturned >= 2

SamplesMade(t) == [j \in 1..returned[t] |-> tests[t].fn.cost]

Count(f, x) == Cardinality({k \in DOMAIN f : f[k] = x})

\* What results holds, and what this invocation alone accounts for.
ResultsHeld == [k \in DOMAIN results |-> <<ResultAt(k).name, ResultAt(k).samples>>]
ResultsMade == [t \in DOMAIN tests |-> <<tests[t].name, SamplesMade(t)>>]

\* C5: results reflects the latest invocation of run or preheat only: when
\* the invocation starts results is one empty TestResult per test, and at
\* every point after it the TestResults hold the samples of the calls of
\* this invocation and nothing else.
C5_OnlyLatestInvocation ==
    /\ (pc = "cycle" /\ cycle = 1) =>
          /\ Len(results) = Len(tests)
          /\ \A k \in DOMAIN results : ResultAt(k) = EmptyResult(tests[k].name)
    /\ promise # "none" =>
          /\ Len(results) = Len(tests)
          /\ \A k \in DOMAIN results :
                Count(ResultsHeld, ResultsHeld[k]) = Count(ResultsMade, ResultsHeld[k])

C5_Witness ==
    /\ stale
    /\ Succeeded
    /\ Len(tests) >= 2
    /\ TotalSamples >= 2

C7_TotalTimeIsSum ==
    \A ref \in DOMAIN heap : heap[ref].totalTime = SumSeq(heap[ref].samples)

C7_Witness ==
    /\ pc = "call"
    /\ \E ref \in DOMAIN heap : Len(heap[ref].samples) >= 3 /\ heap[ref].totalTime >= 3

\* C8: after an abort results still holds one TestResult per registered
\* test, each with one sample per call of that test that returned; the call
\* that threw left no sample, the call that failed validation left its own.
C8_PartialResultsKept ==
    Aborted =>
        /\ Len(results) = Len(tests)
        /\ \A k \in DOMAIN results :
              /\ ResultAt(k).name = tests[k].name
              /\ Len(ResultAt(k).samples) = returned[k]
        /\ error = "throw" => TotalSamples = TotalStarted - 1
        /\ error = "validation" => TotalSamples = TotalStarted

C8_Witness ==
    /\ Aborted
    /\ error = "validation"
    /\ Len(tests) >= 2
    /\ \E k \in DOMAIN results : Len(ResultAt(k).samples) >= 2
    /\ \E k \in DOMAIN results : Len(ResultAt(k).samples) = 0

\* C9: a configured validate is called after every call that returned, and
\* the run aborts exactly at the first call for which it returns something
\* other than true; with a validate that never returns true one call is
\* made and at most one sample exists.
C9_ValidateAbortsOnNonTrue ==
    /\ Has(options, "validate") =>
          /\ validateCount = TotalReturned
          /\ validateCount >= 1 => ((error = "validation") <=> (lastValidate # JTrue))
    /\ (Has(options, "validate") /\ JTrue \notin options.validate) =>
          /\ TotalStarted <= 1
          /\ TotalSamples <= 1
          /\ Len(results) >= 1 => Len(ResultAt(1).samples) <= 1
          /\ (pc = "done" /\ Len(tests) >= 1) => TotalStarted = 1
    /\ ~Has(options, "validate") => validateCount = 0 /\ error # "validation"

C9_Witness ==
    /\ Aborted
    /\ error = "validation"
    /\ JTrue \notin options.validate
    /\ lastValidate = JString("boom")
    /\ Len(tests) >= 2
    /\ cycles >= 2
    /\ TotalStarted = 1

\* C10: within a cycle no test is called more than callCount times; the
\* queue holds exactly the tests still owed calls, each with the count of
\* its calls in this cycle; a cycle ends with callCount calls of every test
\* and a new one starts with every test in the queue at zero; a successful
\* run has called every test callCount times in each cycle.
C10_CallCountPerCycle ==
    /\ (InCycle \/ pc = "cycle") =>
          \A t \in DOMAIN tests : cycleCalls[t] <= iterations
    /\ InCycle =>
          /\ \A t \in DOMAIN tests :
                Cardinality({k \in DOMAIN queue : queue[k].fn.id = t})
                    = (IF cycleCalls[t] < iterations THEN 1 ELSE 0)
          /\ \A k \in DOMAIN queue : queue[k].runs = cycleCalls[queue[k].fn.id]
    /\ (pc = "pick" /\ queue = <<>>) =>
          \A t \in DOMAIN tests : cycleCalls[t] = iterations
    /\ (pc = "pick" /\ TotalReturned = iterations * Len(tests) * (cycle - 1)) =>
          /\ Len(queue) = Len(tests)
          /\ \A k \in DOMAIN queue : queue[k].runs = 0
    /\ Succeeded =>
          \A t \in DOMAIN tests : started[t] = iterations * cycles

C10_Witness ==
    /\ pc = "pick"
    /\ queue = <<>>
    /\ cycle = 2
    /\ iterations >= 2
    /\ Len(tests) >= 2
    /\ \A t \in DOMAIN tests : cycleCalls[t] = iterations /\ started[t] = 2 * iterations

\* The calls the run still owes: N * C * K less the calls that returned.
Owed == Len(tests) * iterations * cycles - TotalReturned

\* C11: every call that returns takes one from the calls still owed, which
\* never go below zero; a run that ends without an error owes none; and
\* every run that is pending is eventually resolved.
C11_RunResolves ==
    /\ [][(pc = "call" /\ returned' # returned) => (Owed >= 1 /\ Owed' = Owed - 1)]_vars
    /\ [](Succeeded => Owed = 0)
    /\ (promise = "pending") ~> (promise = "resolved")

C11_Witness ==
    /\ Succeeded
    /\ Len(tests) >= 2
    /\ iterations >= 2
    /\ cycles >= 2
    /\ TotalReturned = Len(tests) * iterations * cycles

\* C12: at most one call is under way; a call is under way only while run()
\* waits for it (or it threw and ended the run); and whenever a call starts
\* every call before it has returned and left its sample.
C12_CallsSequential ==
    promise # "none" =>
        /\ TotalStarted - TotalReturned \in {0, 1}
        /\ (TotalStarted - TotalReturned = 1) <=> (pc = "call" \/ error = "throw")
        /\ TotalSamples = TotalReturned
        /\ pc = "call" => TotalSamples = TotalStarted - 1

C12_Witness ==
    /\ pc = "call"
    /\ coolDown # 0
    /\ Len(tests) >= 2
    /\ TotalStarted = 4
    /\ TotalSamples = 3

\* C13: a suite without tests makes no call and no validation and holds no
\* result at any point of a run, and its run resolves without an error.
C13_EmptySuite ==
    /\ [](Len(tests) = 0 =>
            /\ pc \notin {"call", "cool"}
            /\ queue = <<>>
            /\ results = <<>>
            /\ validateCount = 0
            /\ error = "none"
            /\ promise # "rejected")
    /\ (Len(tests) = 0 /\ promise = "pending") ~> (Succeeded /\ promise = "resolved")

C13_Witness ==
    /\ Len(tests) = 0
    /\ Succeeded
    /\ promise = "resolved"
    /\ iterations >= 2
    /\ cycle > cycles
    /\ cycles >= 2
    /\ Has(options, "validate")
    /\ results = <<>>

\* A run is under way on a host with the hook, under the given strategy.
Collecting(strategy) == hasGC /\ gcStrategy = strategy /\ pc \notin {"idle", "done"}

\* The step is the return of a call that the run goes on after.
CallReturned == pc = "call" /\ returned' # returned /\ error' = "none"

\* C14: under 'periodic' with the hook, a returning call is followed by a
\* collection exactly when the calls made in the whole run so far are a
\* multiple of gcInterval, and no other step collects; so the collections
\* made are the calls made divided by gcInterval, rounded down, and a
\* successful run of N tests, C calls and K cycles makes
\* floor(N * C * K / gcInterval).  (A call whose validation fails ends the run
\* before the collection: C3.)
C14_PeriodicCollection ==
    /\ [][Collecting("periodic") =>
            IF CallReturned
            THEN gcCount' = gcCount + (IF TotalReturned' % gcInterval = 0 THEN 1 ELSE 0)
            ELSE gcCount' = gcCount]_vars
    /\ []((hasGC /\ gcStrategy = "periodic" /\ promise # "none" /\ error # "validation") =>
            gcCount = TotalReturned \div gcInterval)
    /\ []((hasGC /\ gcStrategy = "periodic" /\ Succeeded) =>
            gcCount = (Len(tests) * iterations * cycles) \div gcInterval)

C14_Witness ==
    /\ Succeeded
    /\ hasGC
    /\ gcStrategy = "periodic"
    /\ gcInterval = 3
    /\ Len(tests) = 2
    /\ iterations = 2
    /\ cycles = 2
    /\ gcCount = 2

\* C15: under 'per-cycle' with the hook, the one step that collects is the
\* head of a cycle, before the queue of the cycle exists; so inside cycle k
\* k collections were made, whatever the calls made in it, and a run of K
\* cycles that succeeded made K.
C15_PerCycleCollection ==
    /\ [][Collecting("per-cycle") =>
            IF pc = "cycle" /\ pc' = "pick"
            THEN gcCount' = gcCount + 1 /\ cycleCalls' = Zeros /\ started' = started
            ELSE gcCount' = gcCount]_vars
    /\ []((hasGC /\ gcStrategy = "per-cycle" /\ promise # "none") =>
            /\ (InCycle \/ Aborted) => gcCount = cycle
            /\ pc = "cycle" => gcCount = cycle - 1
            /\ Succeeded => gcCount = cycles)

C15_Witness ==
    /\ Succeeded
    /\ hasGC
    /\ gcStrategy = "per-cycle"
    /\ Len(tests) = 2
    /\ iterations = 2
    /\ cycles = 2
    /\ gcCount = 2

\* The tests that have made callCount calls in the current cycle.
CompletedInCycle == {t \in DOMAIN tests : cycleCalls[t] = iterations}

\* C16: under 'per-test' with the hook, the step in which a call returns
\* collects exactly when that call was the test's last of the cycle, and
\* no other step collects; so at every pick the collections made are the
\* tests completed so far, and a successful run of N tests and K cycles
\* made N * K.  (A call whose validation fails ends the run before the
\* collection: C3.)
C16_PerTestCollection ==
    /\ [][Collecting("per-test") =>
            IF CallReturned
            THEN gcCount' = gcCount +
                    (IF \E t \in DOMAIN tests :
                           returned'[t] # returned[t] /\ cycleCalls'[t] = iterations
                     THEN 1 ELSE 0)
            ELSE gcCount' = gcCount]_vars
    /\ []((hasGC /\ gcStrategy = "per-test" /\ promise # "none") =>
            /\ (InCycle /\ error = "none") =>
                  gcCount = Len(tests) * (cycle - 1) + Cardinality(CompletedInCycle)
            /\ Succeeded => gcCount = Len(tests) * cycles)

C16_Witness ==
    /\ Succeeded
    /\ hasGC
    /\ gcStrategy = "per-test"
    /\ Len(tests) = 2
    /\ iterations = 2
    /\ cycles = 2
    /\ gcCount = 4

\* C17: under 'never' no collection is made at any point of a run, with the
\* hook there, whatever cycles, callCount and gcInterval are.
C17_NeverCollects ==
    (gcStrategy = "never" /\ promise # "none") => gcCount = 0

C17_Witness ==
    /\ Succeeded
    /\ hasGC
    /\ gcStrategy = "never"
    /\ gcInterval = 1
    /\ cycles = 2
    /\ TotalReturned = 8
    /\ gcCount = 0

\* C18: on a host without the hook no collection is made under any
\* strategy, an error comes from a test or its validation only, and the
\* calls and samples are those the call count and the cycles give, as on a
\* host with the hook: a sample per returned call, in cycle k of a test
\* C * (k - 1) calls and those of the cycle, C * K of each after success.
C18_RunsWithoutHook ==
    promise # "none" =>
        /\ ~gc => gcCount = 0
        /\ error = "throw" => (pc = "done" /\ TotalStarted = TotalReturned + 1)
        /\ error = "validation" => (pc = "done" /\ lastValidate \notin {JTrue, NotCalled})
        /\ \A t \in DOMAIN tests :
              /\ Len(heap[t].samples) = returned[t]
              /\ (InCycle \/ Aborted) => returned[t] = iterations * (cycle - 1) + cycleCalls[t]
              /\ Succeeded => (started[t] = iterations * cycles /\ returned[t] = started[t])

C18_Witness ==
    /\ ~gc
    /\ Succeeded
    /\ gcStrategy = "per-test"
    /\ Len(tests) = 2
    /\ cycles = 2
    /\ TotalSamples = 8
    /\ gcCount = 0

\* C19 as stated: without the hook an invocation has logged the warning
\* once when the strategy is not 'never', and not at all when it is.
C19_WarnsOncePerRun ==
    (promise # "none" /\ ~gc) => warnings = (IF gcStrategy # "never" THEN 1 ELSE 0)

\* C19, amended: without the hook an invocation with verbosity above 0 and
\* a strategy other than 'never' has logged the warning once, at every
\* point from its start to its end; a silent invocation (verbosity 0, and
\* so every preheat), one under 'never', and one on a host with the hook
\* have logged none.
C19_WarnsOnceUnlessSilent ==
    promise # "none" =>
        /\ warnings = (IF ~gc /\ verbosity > 0 /\ gcStrategy # "never" THEN 1 ELSE 0)
        /\ invoked = "preheat" => warnings = 0

C19_Witness ==
    /\ ~gc
    /\ Succeeded
    /\ invoked = "run"
    /\ stale
    /\ verbosity > 0
    /\ gcStrategy = "periodic"
    /\ iterations = 2
    /\ Len(tests) = 2
    /\ TotalReturned = 4
    /\ warnings = 1

\* C20: an invocation of preheat is one run with the call count passed to
\* preheat, verbosity 0, the caller's value, gcStrategy and gcInterval (or
\* their defaults) and nothing else of the caller's options: one cycle, no
\* validation, no cool-down, no report (results stay in registration
\* order); when it ends without an error every TestResult holds callCount
\* samples.  (A preheat in which a call throws is an aborted run: C8.)
C20_PreheatIsASilentRun ==
    invoked = "preheat" =>
        /\ iterations = requested.n
        /\ verbosity = 0
        /\ gcStrategy = Opt(requested.o, "gcStrategy", "periodic")
        /\ gcInterval = Opt(requested.o, "gcInterval", 1000)
        /\ DOMAIN options \subseteq {"verbosity", "value", "gcStrategy", "gcInterval"}
        /\ Has(options, "value") <=> Has(requested.o, "value")
        /\ Has(options, "value") => options.value = requested.o.value
        /\ cycles = 1
        /\ cycle <= 2
        /\ validateCount = 0
        /\ error # "validation"
        /\ coolCount = 0
        /\ pc # "cool"
        /\ Succeeded =>
              /\ Len(results) = Len(tests)
              /\ \A k \in DOMAIN results :
                    /\ ResultAt(k).name = tests[k].name
                    /\ Len(ResultAt(k).samples) = requested.n

C20_Witness ==
    /\ invoked = "preheat"
    /\ Succeeded
    /\ Has(requested.o, "validate")
    /\ options.value = JNumber("1")
    /\ requested.o.cycles = 2
    /\ requested.o.verbosity = 2
    /\ requested.n = 2
    /\ Len(tests) = 2
    /\ TotalSamples = 4
    /\ gcCount = IF gc THEN 2 ELSE 0

\* The automatic names, written out.
TestNames == <<"Test 1", "Test 2", "Test 3", "Test 4">>

\* C21: every call of test() appends exactly one entry at the end of the test
\* list and leaves the entries before it as they were; test(fn) (the input
\* of cost 1) registers the callable under 'Test n', n the number of tests
\* registered before the call plus one, and test(name, fn) (the input of
\* cost 0) under the name given; the call does not throw and returns at
\* once, with no run started.
C21_TestAppendsOne ==
    [][tests' # tests =>
          /\ Len(tests') = Len(tests) + 1
          /\ SubSeq(tests', 1, Len(tests)) = tests
          /\ LET last == tests'[Len(tests')]
             IN /\ last.fn.id = Len(tests')
                /\ last.fn.cost = 1 => last.name = TestNames[Len(tests) + 1]
                /\ last.fn.cost = 0 => last.name = "fast"
          /\ pc' = "idle"
          /\ promise' = promise
          /\ error' = error]_vars

C21_Witness ==
    /\ Len(tests) = 2
    /\ tests[1].name = "fast"
    /\ tests[2].name = "Test 2"
    /\ tests[2].fn.cost = 1

\* The object at reference r of the store s with what is nested in it, by
\* content.
Content(s, r) ==
    [data |-> s[r].data,
     child |-> IF s[r].child = 0 THEN <<>> ELSE <<s[s[r].child].data>>]

\* The references of the object at r and of the object nested in it.
Reach(s, r) == {r} \cup (IF s[r].child = 0 THEN {} ELSE {s[r].child})

\* C22: when the value is an object, every test call is passed an object
\* that did not exist before the call was prepared, nested object included,
\* and that equals by content the value the caller configured; whatever the
\* tests write, the caller's objects stay as they were when the run began;
\* a value that is not an object is passed as it is.
C22_FreshDeepCopy ==
    [][/\ promise' # "none" => SubSeq(store', 1, Len(configured')) = configured'
       /\ (pc = "pick" /\ pc' = "call") =>
              LET value == Opt(options, "value", JUndefined)
              IN IF value.type = "object"
                 THEN /\ arg'.type = "object"
                      /\ Reach(store', arg'.ref) \cap DOMAIN store = {}
                      /\ Content(store', arg'.ref) = Content(configured, value.ref)
                 ELSE arg' = value]_vars

C22_Witness ==
    /\ pc = "call"
    /\ TotalReturned >= 1
    /\ options.value = JObject(1)
    /\ Content(store, arg.ref) = [data |-> 1, child |-> <<1>>]
    /\ Content(store, 1) = [data |-> 0, child |-> <<0>>]

\* C23: after a successful run, stdDeviation and marginOfError are there
\* exactly in the results with more than one sample; with one sample they
\* are absent, not zero, meanTime is that sample and opsPerSecond is 1000
\* divided by it.
C23_DispersionNeedsTwoSamples ==
    Succeeded =>
        \A k \in DOMAIN results :
            LET r == ResultAt(k)
            IN /\ (r.stdDeviation # Absent) <=> (Len(r.samples) > 1)
               /\ (r.marginOfError # Absent) <=> (Len(r.samples) > 1)
               /\ Len(r.samples) = 1 =>
                      /\ r.meanTime = <<r.samples[1], 1>>
                      /\ r.opsPerSecond = Div(1000, r.samples[1])

C23_Witness ==
    /\ Succeeded
    /\ Len(results) = 1
    /\ ResultAt(1).samples = <<2>>
    /\ ResultAt(1).stdDeviation = Absent
    /\ ResultAt(1).opsPerSecond = <<500, 1>>

\* C24: after a successful run of at least one call per test, opsPerSecond
\* of every result is a positive finite number, whatever times the clock
\* gave.
C24_OpsPerSecondFinite ==
    (Succeeded /\ iterations >= 1) =>
        \A k \in DOMAIN results :
            /\ ResultAt(k).opsPerSecond[1] > 0
            /\ ResultAt(k).opsPerSecond[2] > 0

\* The sum of the squares of a sequence of numbers.
SumSquares(s) == SumSeq([j \in DOMAIN s |-> s[j] * s[j]])

\* C25: for a result with n > 1 samples the variance is the sum of the
\* squared deviations from the mean divided by n - 1, that is
\* (n * sum of squares - square of the sum) / (n * (n - 1)); stdDeviation
\* is its square root and marginOfError is the critical value for n - 1
\* degrees of freedom times the square root of variance / n.
C25_SampleVariance ==
    Succeeded =>
        \A k \in DOMAIN results :
            LET r == ResultAt(k)
                n == Len(r.samples)
                sum == SumSeq(r.samples)
                variance == Div(n * SumSquares(r.samples) - sum * sum, n * (n - 1))
            IN n > 1 =>
                  /\ r.stdDeviation = Sqrt(variance)
                  /\ r.marginOfError =
                         <<getTCritical95(n - 1)>> \o Sqrt(Div(variance[1], variance[2] * n))

C25_Witness ==
    /\ Succeeded
    /\ Len(results) = 1
    /\ ResultAt(1).samples = <<0, 2, 1>>
    /\ ResultAt(1).stdDeviation = Sqrt(<<1, 1>>)
    /\ ResultAt(1).marginOfError = <<4303>> \o Sqrt(<<1, 3>>)

DrawsFor(k, length) == {r \in Draws : randomIndex(r, length) + 1 = k}

Spawns == SumSeq([p \in DOMAIN procs |-> procs[p].spawns])

\* C29 as claimed: a process started with BENCH_RESTARTED in its environment,
\* whatever its value, never restarts.
C29_NoRestartWhenSet ==
    \A p \in DOMAIN procs : procs[p].restarted # "unset" => procs[p].spawns = 0

\* C29: one invocation calls spawn at most once, so that it is two
\* processes at most; and a process never restarts when it was started with
\* a non-empty BENCH_RESTARTED, when it has a gc function, when --expose-gc
\* is among its exec arguments, or when BENCH_NO_EXPOSE_GC is 'true'.
C29_RestartsAtMostOnce ==
    /\ Spawns <= 1
    /\ Len(procs) <= 2
    /\ \A p \in DOMAIN procs :
          (\/ procs[p].restarted \notin {"unset", ""}
           \/ procs[p].gc
           \/ procs[p].exposeGc
           \/ procs[p].noExposeGc = "true") => procs[p].spawns = 0

\* The child of a restart has run the command to its end, and the first
\* process has exited after it.
C29_Witness ==
    /\ Len(procs) = 2
    /\ procs[1].spawns = 1
    /\ procs[1].pc = "exited"
    /\ procs[2].restarted = "true"
    /\ procs[2].exit = ExitCode(0)
    /\ cmd.proc = 2
    /\ cmd.pc = "resolved"

\* A path given with --files has nothing behind it.
AnyFileMissing == \E j \in DOMAIN procs[1].argv.files : ~procs[1].argv.files[j].exists

\* C30: when a listed file does not exist, the run command never gets past
\* its check of the files: no module is loaded, no test registered, no test
\* called; it fails with 'File not found'; and once the command has been
\* started, a process of the invocation that exits with a code exits with
\* 1: the process that ran the command, and the one that waited for it.
C30_MissingFileFails ==
    AnyFileMissing =>
        /\ cmd.loaded = 0
        /\ cmd.registered = <<>>
        /\ cmd.calls = 0
        /\ cmd.pc \in {"none", "check", "rejected"}
        /\ cmd.pc = "rejected" => cmd.error = "File not found"
        /\ \A p \in DOMAIN procs :
              (cmd.pc # "none" /\ procs[p].exit.kind = "code") => procs[p].exit.code = 1

C30_Witness ==
    /\ procs[1].argv.files = <<Exporting(TRUE, FALSE, FALSE, FALSE, 0), NoFile>>
    /\ Len(procs) = 2
    /\ cmd.proc = 2
    /\ cmd.pc = "rejected"
    /\ cmd.error = "File not found"
    /\ procs[2].exit = ExitCode(1)
    /\ procs[1].exit = ExitCode(1)

\* The tests registered for file j, in the order of their registration.
RegisteredFor(j) ==
    LET OfFile(t) == t.name[1] = j
    IN SelectSeq(cmd.registered, OfFile)

\* The one test named after the file, for its export key.
NamedAfterFile(j, key) == <<[name |-> <<j, "">>, fn |-> <<j, key>>]>>

\* C31: a file the load loop has passed has registered, when its default
\* export is a function, that function alone; or else the export named
\* benchmark; or else the export named test; or else the module itself;
\* each under the file's name; or else every function it exports, each
\* under the file's name and its own; a file the loop has not passed has
\* registered nothing; the tests stand in the order of the files; and the
\* loop never passes a file without a function: the command is rejected
\* there, no benchmark is run, and the process exits with 1.
C31_FirstPatternWins ==
    cmd.pc \notin {"none", "check"} =>
        /\ \A j \in DOMAIN files :
              LET f == files[j]
                  regs == RegisteredFor(j)
              IN IF j >= cmd.k THEN regs = <<>>
                 ELSE /\ f.default => regs = NamedAfterFile(j, "default")
                      /\ (~f.default /\ f.benchmark) => regs = NamedAfterFile(j, "benchmark")
                      /\ (~f.default /\ ~f.benchmark /\ f.test) =>
                             regs = NamedAfterFile(j, "test")
                      /\ (~f.default /\ ~f.benchmark /\ ~f.test /\ f.callable) =>
                             regs = NamedAfterFile(j, "module")
                      /\ (~f.default /\ ~f.benchmark /\ ~f.test /\ ~f.callable) =>
                             /\ f.others > 0
                             /\ Len(regs) = f.others
                             /\ \A a \in DOMAIN regs :
                                   /\ regs[a].fn = <<j, OtherKeys[a]>>
                                   /\ regs[a].name = <<j, OtherKeys[a]>>
        /\ \A a, b \in DOMAIN cmd.registered :
              a < b => cmd.registered[a].name[1] <= cmd.registered[b].name[1]
        /\ (\E j \in DOMAIN files : Registers(j, files[j]) = <<>>) =>
              /\ cmd.pc \in {"load", "rejected"}
              /\ cmd.calls = 0
              /\ cmd.held = "none"
              /\ procs[1].pc = "exited" => procs[1].exit = ExitCode(1)

C31_Witness ==
    /\ cmd.pc = "resolved"
    /\ files = <<Exporting(FALSE, TRUE, TRUE, TRUE, 2), Exporting(FALSE, FALSE, FALSE, FALSE, 2)>>
    /\ Len(cmd.registered) = 3
    /\ cmd.registered[1].fn = <<1, "benchmark">>
    /\ cmd.registered[3].name = <<2, "b">>
    /\ procs[1].exit = ExitCode(0)

\* C32: when a run was started while an earlier one was suspended, and both
\* have resolved, every TestResult holds the C * K samples of the later
\* run, and none of the earlier one.
C32_OnlyLaterRun ==
    (earlier.pc = "done" /\ pc = "done" /\ error = "none") =>
        \A k \in DOMAIN results : Len(ResultAt(k).samples) = iterations * cycles

\* C33: the sample of a call that has returned is appended to the
\* TestResult that bears the name of the test that was called, in every
\* cycle, printResults called in the course of the run or not.
C33_SampleUnderOwnName ==
    [][(pc = "call" /\ heap' # heap) =>
          heap[queue[i].result].name = tests[queue[i].fn.id].name]_vars

\* The queue entries of the test t.
EntriesOf(t) == {k \in DOMAIN queue : queue[k].fn.id = t}

\* C34: while a run is under way, the queue holds at most one entry for a
\* test, the runs of every entry are at least 0 and less than the call
\* count, and a test has callCount samples for each completed cycle, plus
\* its runs of the cycle under way, or plus callCount when it has left the
\* queue of that cycle.
C34_QueueAccounts ==
    (promise = "pending" /\ invoked = "run") =>
        /\ \A t \in DOMAIN results : Cardinality(EntriesOf(t)) <= 1
        /\ \A k \in DOMAIN queue : 0 <= queue[k].runs /\ queue[k].runs < iterations
        /\ \A t \in DOMAIN results :
              Len(ResultAt(t).samples) =
                  iterations * (cycle - 1)
                  + (IF pc = "cycle" THEN 0
                     ELSE IF EntriesOf(t) = {} THEN iterations
                     ELSE queue[CHOOSE k \in EntriesOf(t) : TRUE].runs)

\* C35: a run with the call count 0 calls no test function: no call is
\* started, and no TestResult is given a sample.
C35_NoCallForZero ==
    (invoked = "run" /\ promise # "none" /\ iterations = 0) =>
        /\ TotalStarted = 0
        /\ \A k \in DOMAIN results : ResultAt(k).samples = <<>>

\* The tests that were registered when the run started.
AtStart == 1..Len(started)

\* C36: a test registered while a run is under way is not called by that
\* run: the queue of every cycle, and the call under way, are of tests that
\* were registered when the run started; and the results of the run keep
\* one entry for each of those tests, and no other, to its end.
C36_LateTestLeftOut ==
    promise # "none" =>
        /\ \A k \in DOMAIN queue : queue[k].fn.id \in AtStart
        /\ pc = "call" => queue[i].fn.id \in AtStart
        /\ Len(results) = Len(started)
        /\ \A t \in AtStart :
              Cardinality({k \in DOMAIN results : ResultAt(k).name = tests[t].name})
                  = Cardinality({u \in AtStart : tests[u].name = tests[t].name})

\* The second cycle begins, without a pause since the first, on a suite
\* that has been given a test in the first cycle.
C36_Witness ==
    /\ promise = "pending"
    /\ pc = "pick"
    /\ coolDown = 0
    /\ cycle = 2
    /\ Len(tests) = 2
    /\ Len(started) = 1
    /\ Len(queue) = 1
    /\ queue[1].runs = 0
    /\ Len(ResultAt(1).samples) = iterations

\* C37: when the promise of run has resolved, the run has called
\* Logger.groupEnd as often as Logger.group: every console group it opened
\* is closed, after a run that succeeded and after one that was aborted, for
\* every verbosity.
C37_GroupsClosed == promise = "resolved" => groups.opened = groups.closed

\* C38: a process whose call of spawn has failed does not end before it has
\* run the requested command itself.
C38_ContinuesAfterFailedRestart ==
    \A p \in DOMAIN procs :
        (procs[p].spawns = 1 /\ p + 1 \notin DOMAIN procs /\ procs[p].pc = "exited") =>
            (cmd.proc = p /\ cmd.pc \in {"resolved", "rejected"})

\* The arguments of the process that runs the command.
argv == procs[cmd.proc].argv

\* C39: preheat and run are reached only with every file loaded and its
\* tests registered; preheat is called exactly when --preheat is not 0; the
\* measured run is called only with the preheat resolved, when there is one;
\* the export comes after the measured run has resolved, is made exactly
\* when --export is given, and writes the results of the measured run.
C39_StepsInOrder ==
    /\ cmd.pc \in {"preheat", "preheating", "run", "running", "export", "resolved"} =>
          /\ cmd.k > Len(files)
          /\ cmd.loaded = Len(files)
          /\ cmd.registered # <<>>
    /\ cmd.pc \in {"preheat", "preheating"} =>
          /\ argv.preheat # 0
          /\ cmd.held = "none"
          /\ cmd.exported = "none"
    /\ cmd.pc \in {"run", "running"} =>
          /\ cmd.held = (IF argv.preheat # 0 THEN "preheat" ELSE "none")
          /\ cmd.exported = "none"
    /\ cmd.pc = "run" => cmd.calls = argv.preheat * Len(cmd.registered)
    /\ cmd.pc = "export" => (cmd.held = "run" /\ cmd.exported = "none" /\ argv.export)
    /\ cmd.pc = "resolved" =>
          /\ cmd.held = "run"
          /\ cmd.calls = (argv.preheat + 1) * Len(cmd.registered)
          /\ cmd.exported = (IF argv.export THEN "run" ELSE "none")

C39_Witness ==
    /\ cmd.pc = "resolved"
    /\ argv.preheat = 1
    /\ argv.export
    /\ Len(files) = 2
    /\ Len(cmd.registered) = 3
    /\ cmd.calls = 6
    /\ cmd.exported = "run"

\* C40: a process whose child has started never runs the command; it stays
\* waiting until the child has exited, exits then, and exits as the child
\* did: with the same code, or by the same signal.
C40_ParentFollowsChild ==
    /\ [](\A p \in DOMAIN procs :
            p + 1 \in DOMAIN procs =>
                /\ cmd.proc # p
                /\ procs[p].pc \in {"waiting", "exited"}
                /\ procs[p].pc = "exited" =>
                       (procs[p + 1].pc = "exited" /\ procs[p].exit = procs[p + 1].exit))
    /\ ((Len(procs) = 2 /\ procs[2].pc = "exited") ~> (procs[1].pc = "exited"))

\* The child has failed with the code 1, and so has the parent.
C40_Witness ==
    /\ Len(procs) = 2
    /\ cmd.proc = 2
    /\ cmd.pc = "rejected"
    /\ procs[2].exit = ExitCode(1)
    /\ procs[1].pc = "exited"
    /\ procs[1].exit = ExitCode(1)

====
